---- MODULE Spec2Model ----
(***************************************************************************)
(* Fourier-series epicycles library (src/src/src): the transform engine    *)
(* (fft, ifft, dft), the spectral analyzer (fourier_analyze) and the       *)
(* epicycle reconstructor (epicycles_at_time).                             *)
(*                                                                         *)
(* Number system.  The C code computes in double complex.  The model       *)
(* computes exactly in the cyclotomic field Q(zeta), zeta = exp(2*pi*i /   *)
(* RootOrder): every twiddle factor exp(-2*pi*i*j*k/n) with n dividing     *)
(* RootOrder is a power of zeta, and the code only ever adds, subtracts,   *)
(* conjugates, scales by an integer, divides by an integer and multiplies  *)
(* by such a twiddle.  "Within floating-point tolerance" in the claims is  *)
(* therefore exact equality in the model.                                  *)
(***************************************************************************)
EXTENDS Integers, Sequences, FiniteSets, TLC

(***************************************************************************)
(* Bounds of the model.                                                    *)
(***************************************************************************)
\* transform sizes range over the divisors of RootOrder up to MaxN (and 0)
MaxN == 8
\* analysis sizes (n_points) range over the divisors of RootOrder up to MaxPoints
MaxPoints == 4
\* a transform input has at most MaxNonzero non-zero points
MaxNonzero == 2
\* requested coefficient counts range over 0..MaxCoeffs
MaxCoeffs == 5
\* time values range over -1..MaxTick, in units of 2*pi/RootOrder
MaxTick == 1
\* the heap of the interleaved invocations has the blocks 1..MaxBlocks
MaxBlocks == 8
\* the width of int and of uint32_t in the statement-level models, scaled
\* down from the 32 bits of the builds
IntBits == 6
\* sizes of the statement-level runs range over 0..MaxSize
MaxSize == 64
\* the header count of a path file ranges over 0..MaxCount
MaxCount == 5
\* the size of the line buffer of load_path_text, scaled down from 256
LineSize == 5
\* a text file has at most MaxLines lines
MaxLines == 3

(***************************************************************************)
(* The field Q(zeta).  zeta is a primitive 24th root of unity; its minimal *)
(* polynomial is x^8 - x^4 + 1, so 1, zeta, ..., zeta^7 is a basis and     *)
(* zeta^8 = zeta^4 - 1.  A Complex is [c |-> <<c0..c7>>, d |-> den] for    *)
(* (c0 + c1*zeta + ... + c7*zeta^7) / den, in lowest terms with den > 0.   *)
(* i = zeta^6.                                                             *)
(***************************************************************************)
RootOrder == 8 * 3
\* the degree of Q(zeta) over Q: phi(24)
Degree == RootOrder \div 3
QuarterTurn == RootOrder \div 4

Abs(x) == IF x < 0 THEN -x ELSE x

\* e, after the value v has been computed.  TLC evaluates an operator's
\* argument when it is first used; the loops below, written as recursions,
\* use Then so that each iteration computes its store in that iteration, as
\* the code does, and not when the loop has ended.
Then(v, e) == IF v = v THEN e ELSE e

\* the coordinate vector <<F(1), ..., F(Degree)>>
Vec(F(_)) == <<F(1), F(2), F(3), F(4), F(5), F(6), F(7), F(8)>>

RECURSIVE GCD(_, _)
GCD(a, b) == IF b = 0 THEN a ELSE GCD(b, a % b)

\* the greatest common divisor of d and the Degree coordinates of c
VecGCD(c, d) ==
    GCD(GCD(GCD(GCD(Abs(c[1]), Abs(c[2])), GCD(Abs(c[3]), Abs(c[4]))),
            GCD(GCD(Abs(c[5]), Abs(c[6])), GCD(Abs(c[7]), Abs(c[8])))),
        d)

\* the fraction c/d in lowest terms
Normal(c, d) ==
    IF d = 1 THEN [c |-> c, d |-> 1]
    ELSE LET g == VecGCD(c, d)
         IN  [c |-> Vec(LAMBDA k : c[k] \div g), d |-> d \div g]

CInt(a, b) == [c |-> Vec(LAMBDA k : IF k = 1 THEN a
                                    ELSE IF k = QuarterTurn + 1 THEN b
                                    ELSE 0),
               d |-> 1]
CZero == CInt(0, 0)
COne == CInt(1, 0)

CAdd(x, y) == Normal(Vec(LAMBDA k : x.c[k] * y.d + y.c[k] * x.d), x.d * y.d)
CNeg(x) == [c |-> Vec(LAMBDA k : -x.c[k]), d |-> x.d]
CSub(x, y) == CAdd(x, CNeg(y))
\* x * m and x / m for an integer m (m > 0 for the division)
CScale(x, m) == Normal(Vec(LAMBDA k : x.c[k] * m), x.d)
CDivInt(x, m) == Normal(x.c, x.d * m)

\* the coordinate of zeta^k (k in 0..Degree-1) in zeta^p (p in 0..RootOrder-1),
\* by zeta^8 = zeta^4 - 1 and zeta^(RootOrder/2) = -1
ZetaPower(p, k) ==
    LET q == p % (RootOrder \div 2)
        sign == IF p >= RootOrder \div 2 THEN -1 ELSE 1
    IN  IF q < Degree
        THEN (IF k = q THEN sign ELSE 0)
        ELSE IF k = q - Degree \div 2 THEN sign
        ELSE IF k = q - Degree THEN -sign
        ELSE 0

\* zeta^e * c for e in 0..RootOrder-1: coordinate k - 1 of the sum of
\* c[j + 1] * zeta^(j + e)
RotC(c, e) ==
    Vec(LAMBDA k :
          c[1] * ZetaPower(e % RootOrder, k - 1)
        + c[2] * ZetaPower((e + 1) % RootOrder, k - 1)
        + c[3] * ZetaPower((e + 2) % RootOrder, k - 1)
        + c[4] * ZetaPower((e + 3) % RootOrder, k - 1)
        + c[5] * ZetaPower((e + 4) % RootOrder, k - 1)
        + c[6] * ZetaPower((e + 5) % RootOrder, k - 1)
        + c[7] * ZetaPower((e + 6) % RootOrder, k - 1)
        + c[8] * ZetaPower((e + 7) % RootOrder, k - 1))

\* a unit complex number exp(i*angle) is held as its angle, an integer number
\* of ticks of 2*pi/RootOrder; x * exp(i*angle):
CMulUnit(x, angle) == [c |-> RotC(x.c, angle % RootOrder), d |-> x.d]

\* cexp(I * angle), as a Complex
Cexp(angle) == CMulUnit(COne, angle)

\* conj(x): zeta^k |-> zeta^(-k) = -zeta^(12-k), reduced by zeta^8 = zeta^4 - 1:
\* conj(zeta) = zeta^3 - zeta^7, conj(zeta^2) = zeta^2 - zeta^6,
\* conj(zeta^3) = zeta - zeta^5, conj(zeta^4) = 1 - zeta^4,
\* conj(zeta^5) = -zeta^7, conj(zeta^6) = -zeta^6, conj(zeta^7) = -zeta^5
Conj(x) ==
    LET c == x.c
    IN  [c |-> <<c[1] + c[5], c[4], c[3], c[2],
                 -c[5], -c[4] - c[8], -c[3] - c[7], -c[2] - c[6]>>,
         d |-> x.d]

(***************************************************************************)
(* Real numbers of the field, and the polar form.  With c = x.c and        *)
(* cos(15 deg) = (sqrt6 + sqrt2)/4, cos(30 deg) = sqrt3/2, ...:            *)
(*   4 * x.d * Re(x) = A + B*sqrt2 + C*sqrt3 + D*sqrt6                     *)
(* for the integers A, B, C, D of RealParts.                               *)
(***************************************************************************)
IsReal(x) == Conj(x) = x

RealParts(x) ==
    LET c == x.c
    IN  <<4 * c[1] + 2 * c[5],
          c[2] + 2 * c[4] - c[6] + c[8],
          2 * c[3],
          c[2] + c[6] - c[8]>>

SignInt(a) == IF a > 0 THEN 1 ELSE IF a < 0 THEN -1 ELSE 0

\* the sign of u + v*sqrt2
Sign2(u, v) ==
    IF u >= 0 /\ v >= 0 THEN SignInt(u + v)
    ELSE IF u <= 0 /\ v <= 0 THEN -1
    ELSE IF u > 0 THEN SignInt(u * u - 2 * v * v)
    ELSE SignInt(2 * v * v - u * u)

\* the sign of (a + b*sqrt2) + (c + d*sqrt2)*sqrt3
Sign4(a, b, c, d) ==
    LET sp == Sign2(a, b)
        sq == Sign2(c, d)
        \* (a + b*sqrt2)^2 - 3*(c + d*sqrt2)^2
        diff == Sign2(a * a + 2 * b * b - 3 * c * c - 6 * d * d,
                      2 * a * b - 6 * c * d)
    IN  IF sp >= 0 /\ sq >= 0 THEN SignInt(sp + sq)
        ELSE IF sp <= 0 /\ sq <= 0 THEN -1
        ELSE IF sp > 0 THEN diff
        ELSE -diff

\* the sign of a real x
Sign(x) == LET r == RealParts(x) IN Sign4(r[1], r[2], r[3], r[4])

RealLess(x, y) == Sign(CSub(y, x)) > 0

\* the phases: angles in (-pi, pi], in ticks
Phases == (1 - RootOrder \div 2)..(RootOrder \div 2)

\* x = r * exp(i*p) for a real r > 0 and a phase p of Phases
HasPhase(x, p) ==
    LET r == CMulUnit(x, -p) IN IsReal(r) /\ Sign(r) > 0

\* the numbers whose modulus and argument the field holds exactly
PolarExact(x) == x = CZero \/ \E p \in Phases : HasPhase(x, p)

\* carg(z) and cabs(z) (C99: carg(0) = 0), for PolarExact z
carg(z) == IF z = CZero THEN 0 ELSE CHOOSE p \in Phases : HasPhase(z, p)
cabs(z) == CMulUnit(z, -carg(z))

(***************************************************************************)
(* Arrays are C arrays: functions on 0..n-1.  A freshly allocated buffer   *)
(* holds Uninit in every slot.  A pointer is NULL or Ptr(v), v being what  *)
(* it points to.                                                           *)
(***************************************************************************)
Uninit == [uninit |-> TRUE]
NULL == [null |-> TRUE]
Ptr(v) == [null |-> FALSE, at |-> v]

Buffer(n) == [i \in 0..(n - 1) |-> Uninit]
\* a[i] = v; a store through an index outside the array is recorded too
Store(a, i, v) == IF i \in DOMAIN a THEN [a EXCEPT ![i] = v] ELSE (i :> v) @@ a

\* 2*pi*num/den in ticks of 2*pi/RootOrder (den divides num * RootOrder)
TwoPi(num, den) == (num * RootOrder) \div den

RECURSIVE BitAnd(_, _)
BitAnd(a, b) ==
    IF a = 0 \/ b = 0 THEN 0
    ELSE (a % 2) * (b % 2) + 2 * BitAnd(a \div 2, b \div 2)

\* is_power_of_2 without the test n > 0
is_power_of_2_NoZeroTest(n) == BitAnd(n, n - 1) = 0

\* the size_t value n - 1 for n = 0 is SIZE_MAX: every bit set, so n & (n-1) = n
is_power_of_2(n) == n > 0 /\ BitAnd(n, n - 1) = 0

\* bits: the number of right shifts that take n to 1 (fft.c:35-40, and the
\* integer part of log2(n) in fft.c:69)
RECURSIVE ShiftCount(_)
ShiftCount(temp) == IF temp > 1 THEN 1 + ShiftCount(temp \div 2) ELSE 0

RECURSIVE ReverseBits(_, _, _)
ReverseBits(rev, temp_i, b) ==
    IF b = 0 THEN rev
    ELSE ReverseBits(2 * rev + (temp_i % 2), temp_i \div 2, b - 1)

RECURSIVE BitReverseLoop(_, _, _, _)
BitReverseLoop(input, output, n, i) ==
    IF i >= n THEN output
    ELSE LET stored == Store(output, ReverseBits(0, i, ShiftCount(n)), input[i])
         IN  Then(stored, BitReverseLoop(input, stored, n, i + 1))

bit_reverse_copy(input, output, n) == BitReverseLoop(input, output, n, 0)

(***************************************************************************)
(* dft (fft.c:126-136).                                                    *)
(***************************************************************************)
RECURSIVE DftSum(_, _, _, _, _)
DftSum(points, n, k, j, acc) ==
    IF j >= n THEN acc
    ELSE LET sum == CAdd(acc, CMulUnit(points[j], TwoPi(-(j * k), n)))
         IN  Then(sum, DftSum(points, n, k, j + 1, sum))

\* the k loop started at 1: output[0] is never stored
RECURSIVE DftLoop_SkipFirst(_, _, _, _)
DftLoop_SkipFirst(points, n, output, k) ==
    IF k >= n THEN output
    ELSE LET stored ==
                 IF k = 0 THEN output
                 ELSE Store(output, k, CDivInt(DftSum(points, n, k, 0, CZero), n))
         IN  Then(stored, DftLoop_SkipFirst(points, n, stored, k + 1))

RECURSIVE DftLoop(_, _, _, _)
DftLoop(points, n, output, k) ==
    IF k >= n THEN output
    ELSE LET stored == Store(output, k, CDivInt(DftSum(points, n, k, 0, CZero), n))
         IN  Then(stored, DftLoop(points, n, stored, k + 1))

dft(points, n, output) == DftLoop(points, n, output, 0)

(***************************************************************************)
(* fft (fft.c:58-89): radix-2 decimation in time, in place in output.      *)
(***************************************************************************)
\* the j loop of one block: w is the angle of the running twiddle factor
\* ButterflyLoop without fft.c:80 (w *= wm): every butterfly of a block uses
\* the twiddle factor 1
RECURSIVE ButterflyLoop_FixedTwiddle(_, _, _, _, _, _)
ButterflyLoop_FixedTwiddle(output, k, m, j, w, wm) ==
    IF j >= m \div 2 THEN output
    ELSE LET t == CMulUnit(output[k + j + m \div 2], w)
             u == output[k + j]
             stored == Store(Store(output, k + j, CAdd(u, t)),
                             k + j + m \div 2, CSub(u, t))
         IN  Then(stored, ButterflyLoop_FixedTwiddle(stored, k, m, j + 1, w, wm))

RECURSIVE ButterflyLoop(_, _, _, _, _, _)
ButterflyLoop(output, k, m, j, w, wm) ==
    IF j >= m \div 2 THEN output
    ELSE LET t == CMulUnit(output[k + j + m \div 2], w)
             u == output[k + j]
             stored == Store(Store(output, k + j, CAdd(u, t)),
                             k + j + m \div 2, CSub(u, t))
             turned == w + wm
         IN  Then(<<stored, turned>>,
                  ButterflyLoop(stored, k, m, j + 1, turned, wm))

RECURSIVE BlockLoop(_, _, _, _, _)
BlockLoop(output, n, m, k, wm) ==
    IF k >= n THEN output
    ELSE LET block == ButterflyLoop(output, k, m, 0, 0, wm)
         IN  Then(block, BlockLoop(block, n, m, k + m, wm))

RECURSIVE StageLoop(_, _, _)
StageLoop(output, n, s) ==
    IF s > ShiftCount(n) THEN output
    ELSE LET m == 2 ^ s
             stage == BlockLoop(output, n, m, 0, TwoPi(-1, m))
         IN  Then(stage, StageLoop(stage, n, s + 1))

\* NormalizeLoop without fft.c:87: the fast path left unnormalized
NormalizeLoop_Skipped(output, n, i) == output

RECURSIVE NormalizeLoop(_, _, _)
NormalizeLoop(output, n, i) ==
    IF i >= n THEN output
    ELSE LET stored == Store(output, i, CDivInt(output[i], n))
         IN  Then(stored, NormalizeLoop(stored, n, i + 1))

\* the path fft takes (fft.c:59-63)
FftPath(n) == IF ~is_power_of_2(n) THEN "dft" ELSE "radix2"

fft(points, n, output) ==
    IF ~is_power_of_2(n) THEN dft(points, n, output)
    ELSE NormalizeLoop(StageLoop(bit_reverse_copy(points, output, n), n, 1), n, 0)

(***************************************************************************)
(* ifft (fft.c:92-119).  temp is the buffer malloc returned, or NULL.      *)
(***************************************************************************)
RECURSIVE InverseSum(_, _, _, _, _)
InverseSum(coefficients, n, i, k, acc) ==
    IF k >= n THEN acc
    ELSE LET sum == CAdd(acc, CMulUnit(coefficients[k], TwoPi(k * i, n)))
         IN  Then(sum, InverseSum(coefficients, n, i, k + 1, sum))

RECURSIVE InverseLoop(_, _, _, _)
InverseLoop(coefficients, n, output, i) ==
    IF i >= n THEN output
    ELSE LET stored == Store(output, i, InverseSum(coefficients, n, i, 0, CZero))
         IN  Then(stored, InverseLoop(coefficients, n, stored, i + 1))

\* ConjScaleLoop without the factor n of fft.c:108
RECURSIVE ConjScaleLoop_NoScale(_, _, _, _)
ConjScaleLoop_NoScale(coefficients, n, temp, i) ==
    IF i >= n THEN temp
    ELSE LET stored == Store(temp, i, Conj(coefficients[i]))
         IN  Then(stored, ConjScaleLoop_NoScale(coefficients, n, stored, i + 1))

RECURSIVE ConjScaleLoop(_, _, _, _)
ConjScaleLoop(coefficients, n, temp, i) ==
    IF i >= n THEN temp
    ELSE LET stored == Store(temp, i, CScale(Conj(coefficients[i]), n))
         IN  Then(stored, ConjScaleLoop(coefficients, n, stored, i + 1))

\* ConjLoop without the conjugation of fft.c:115
ConjLoop_Skipped(output, n, i) == output

RECURSIVE ConjLoop(_, _, _)
ConjLoop(output, n, i) ==
    IF i >= n THEN output
    ELSE LET stored == Store(output, i, Conj(output[i]))
         IN  Then(stored, ConjLoop(stored, n, i + 1))

\* the value ifft leaves in output when it returns
ifft(coefficients, n, output) ==
    IF ~is_power_of_2(n) THEN InverseLoop(coefficients, n, output, 0)
    ELSE ConjLoop(fft(ConjScaleLoop(coefficients, n, Buffer(n), 0), n, output), n, 0)

(***************************************************************************)
(* fourier_analyze (fourier.c:7-81).  A FourierCoefficient is              *)
(* [amplitude, frequency, phase]: the amplitude a real of the field, the   *)
(* frequency an integer, the phase in ticks.                               *)
(***************************************************************************)
\* the comparison with its two results exchanged: ascending order
compare_coeffs_Ascending(ca, cb) ==
    IF RealLess(ca.amplitude, cb.amplitude) THEN -1
    ELSE IF RealLess(cb.amplitude, ca.amplitude) THEN 1
    ELSE 0

\* fourier.c:7-15
compare_coeffs_by_amplitude(ca, cb) ==
    IF RealLess(cb.amplitude, ca.amplitude) THEN -1
    ELSE IF RealLess(ca.amplitude, cb.amplitude) THEN 1
    ELSE 0

\* the clamp off by one: a request of n or more keeps n - 1
ClampCount_OffByOne(n_coeffs, n) == IF n_coeffs >= n THEN n - 1 ELSE n_coeffs

\* fourier.c:28-30
ClampCount(n_coeffs, n) == IF n_coeffs > n THEN n ELSE n_coeffs

\* the centering with a strict comparison: index n/2 goes negative
Frequency_Strict(i, n) == IF i < n \div 2 THEN i ELSE i - n

\* fourier.c:55-59
Frequency(i, n) == IF i <= n \div 2 THEN i ELSE i - n

\* fourier.c:47-60
RECURSIVE ExtractLoop(_, _, _, _)
ExtractLoop(spectrum, all_coeffs, n, i) ==
    IF i >= n THEN all_coeffs
    ELSE LET stored == Store(all_coeffs, i,
                             [amplitude |-> cabs(spectrum[i]),
                              frequency |-> Frequency(i, n),
                              phase |-> carg(spectrum[i])])
         IN  Then(stored, ExtractLoop(spectrum, stored, n, i + 1))

\* qsort leaves some rearrangement of the array that is ordered by the
\* comparison; which one, among elements that compare equal, is unspecified
IsOrdered(a, n) ==
    \A i, j \in 0..(n - 1) :
        i < j => compare_coeffs_by_amplitude(a[i], a[j]) <= 0

\* fourier.c:63 left out: the array stays in spectrum order
qsort_Unsorted(a, n) == {a}

qsort(a, n) ==
    {b \in {[i \in 0..(n - 1) |-> a[p[i]]] : p \in Permutations(0..(n - 1))} :
        IsOrdered(b, n)}

memcpy(src, count) == [i \in 0..(count - 1) |-> src[i]]

EmptyResult == [coefficients |-> NULL, count |-> 0]

\* The results fourier_analyze can return.  failing is the number of the
\* malloc call that returns NULL (1: fft_output, 2: all_coeffs,
\* 3: result.coefficients), 0 when none does.
fourier_analyze(pts, n, n_coeffs, failing) ==
    IF n = 0 \/ n_coeffs = 0 THEN {EmptyResult}
    ELSE IF failing = 1 THEN {EmptyResult}
    ELSE LET spectrum == fft(pts, n, Buffer(n))
         IN  IF failing = 2 THEN {EmptyResult}
             ELSE IF failing = 3 THEN {EmptyResult}
             ELSE {[coefficients |-> Ptr(memcpy(sorted, ClampCount(n_coeffs, n))),
                    count |-> ClampCount(n_coeffs, n)] :
                      sorted \in qsort(ExtractLoop(spectrum, Buffer(n), n, 0), n)}

\* The heap and transform calls fourier_analyze makes, in order: a malloc
\* (with the block it is for and whether it succeeded), a call of fft, a free.
Malloc(block, ok) == [op |-> "malloc", block |-> block, ok |-> ok]
Free(block) == [op |-> "free", block |-> block, ok |-> TRUE]
CallFft == [op |-> "fft", block |-> "fft_output", ok |-> TRUE]

\* the trace without fourier.c:68-69: the third failure path frees nothing
fourier_analyze_trace_Leak(n, n_coeffs, failing) ==
    IF n = 0 \/ n_coeffs = 0 THEN <<>>
    ELSE IF failing = 1 THEN <<Malloc("fft_output", FALSE)>>
    ELSE IF failing = 2
         THEN <<Malloc("fft_output", TRUE), CallFft, Malloc("all_coeffs", FALSE),
                Free("fft_output")>>
    ELSE IF failing = 3
         THEN <<Malloc("fft_output", TRUE), CallFft, Malloc("all_coeffs", TRUE),
                Malloc("coefficients", FALSE)>>
    ELSE <<Malloc("fft_output", TRUE), CallFft, Malloc("all_coeffs", TRUE),
           Malloc("coefficients", TRUE), Free("all_coeffs"), Free("fft_output")>>

\* the trace with the test of fourier.c:23 placed after the first malloc
fourier_analyze_trace_LateCheck(n, n_coeffs, failing) ==
    IF n = 0 \/ n_coeffs = 0
    THEN <<Malloc("fft_output", TRUE), Free("fft_output")>>
    ELSE IF failing = 1 THEN <<Malloc("fft_output", FALSE)>>
    ELSE IF failing = 2
         THEN <<Malloc("fft_output", TRUE), CallFft, Malloc("all_coeffs", FALSE),
                Free("fft_output")>>
    ELSE IF failing = 3
         THEN <<Malloc("fft_output", TRUE), CallFft, Malloc("all_coeffs", TRUE),
                Malloc("coefficients", FALSE),
                Free("all_coeffs"), Free("fft_output")>>
    ELSE <<Malloc("fft_output", TRUE), CallFft, Malloc("all_coeffs", TRUE),
           Malloc("coefficients", TRUE), Free("all_coeffs"), Free("fft_output")>>

\* fourier.c:18-81
fourier_analyze_trace(n, n_coeffs, failing) ==
    IF n = 0 \/ n_coeffs = 0 THEN <<>>
    ELSE IF failing = 1 THEN <<Malloc("fft_output", FALSE)>>
    ELSE IF failing = 2
         THEN <<Malloc("fft_output", TRUE), CallFft, Malloc("all_coeffs", FALSE),
                Free("fft_output")>>
    ELSE IF failing = 3
         THEN <<Malloc("fft_output", TRUE), CallFft, Malloc("all_coeffs", TRUE),
                Malloc("coefficients", FALSE),
                Free("all_coeffs"), Free("fft_output")>>
    ELSE <<Malloc("fft_output", TRUE), CallFft, Malloc("all_coeffs", TRUE),
           Malloc("coefficients", TRUE), Free("all_coeffs"), Free("fft_output")>>

\* the blocks a trace leaves allocated
RECURSIVE Live(_, _, _)
Live(trace, i, live) ==
    IF i > Len(trace) THEN live
    ELSE Live(trace, i + 1,
              IF trace[i].op = "malloc" /\ trace[i].ok THEN live \cup {trace[i].block}
              ELSE IF trace[i].op = "free" THEN live \ {trace[i].block}
              ELSE live)

\* fourier_result_free without fourier.c:87: the pointer is kept after free
fourier_result_free_KeepPointer(r) ==
    IF r # NULL /\ r.at.coefficients # NULL
    THEN [r.at EXCEPT !.count = 0] ELSE r.at

\* fourier.c:84-90
\* the FourierResult r points to, after the call
fourier_result_free(r) ==
    IF r # NULL /\ r.at.coefficients # NULL THEN EmptyResult ELSE r.at

(***************************************************************************)
(* epicycles_at_time (fourier.c:96-129).  positions is NULL or the log of  *)
(* the stores made through the pointer: index |-> the value last stored.   *)
(***************************************************************************)
Write(log, i, v) == IF log = NULL THEN NULL ELSE Ptr((i :> v) @@ log.at)

\* the contribution without the rotation t * frequency
Contribution_NoTime(amplitude, frequency, phase, time) ==
    CMulUnit(amplitude, phase)

\* amplitude * cexp(I * (phase + t * frequency)) (fourier.c:120)
Contribution(amplitude, frequency, phase, time) ==
    CMulUnit(amplitude, phase + time * frequency)

\* EpicycleLoop storing at positions[i] instead of positions[i + 1]
RECURSIVE EpicycleLoop_Shifted(_, _, _, _, _)
EpicycleLoop_Shifted(r, time, i, cumulative, log) ==
    IF i >= r.at.count THEN [tip |-> cumulative, positions |-> log]
    ELSE LET c == r.at.coefficients.at[i]
             sum == CAdd(cumulative,
                         Contribution(c.amplitude, c.frequency, c.phase, time))
             stored == Write(log, i, sum)
         IN  Then(stored, EpicycleLoop_Shifted(r, time, i + 1, sum, stored))

RECURSIVE EpicycleLoop(_, _, _, _, _)
EpicycleLoop(r, time, i, cumulative, log) ==
    IF i >= r.at.count THEN [tip |-> cumulative, positions |-> log]
    ELSE LET amplitude == r.at.coefficients.at[i].amplitude
             frequency == r.at.coefficients.at[i].frequency
             phase == r.at.coefficients.at[i].phase
             contribution == Contribution(amplitude, frequency, phase, time)
             sum == CAdd(cumulative, contribution)
             stored == Write(log, i + 1, sum)
         IN  Then(stored, EpicycleLoop(r, time, i + 1, sum, stored))

\* epicycles_at_time without the store of fourier.c:99 on the empty path
epicycles_at_time_NoStore(r, time, log) ==
    IF r = NULL \/ r.at.coefficients = NULL \/ r.at.count = 0
    THEN [tip |-> CZero, positions |-> log]
    ELSE EpicycleLoop(r, time, 0, CZero, Write(log, 0, CZero))

\* log: NULL when the caller passes positions = NULL, else Ptr of the empty log
epicycles_at_time(r, time, log) ==
    IF r = NULL \/ r.at.coefficients = NULL \/ r.at.count = 0
    THEN [tip |-> CZero, positions |-> Write(log, 0, CZero)]
    ELSE EpicycleLoop(r, time, 0, CZero, Write(log, 0, CZero))

(***************************************************************************)
(* State.  The library keeps no state of its own; the state is the         *)
(* caller's: the point sequence it supplies and the buffers and results    *)
(* the calls fill in.                                                      *)
(***************************************************************************)
VARIABLES
    points,        \* the caller's point sequence, an array of n_points Complex
    n_points,
    fft_output,    \* the caller's output buffer for fft
    fft_path,      \* the path the last fft call took
    dft_output,    \* the caller's output buffer for dft
    ifft_output,   \* the caller's output buffer for ifft
    called,        \* the operations that have returned so far
    crashed,       \* a call stored through a null pointer: undefined behaviour
    result,        \* the caller's FourierResult variable
    requested,     \* n_coeffs of the last fourier_analyze call
    failing,       \* the malloc that failed in the last fourier_analyze call
    trace,         \* the mallocs, frees and fft calls it made
    epi_result,    \* the FourierResult the last epicycles_at_time call was given
    t,             \* its time argument, in ticks
    positions,     \* the stores it made through positions (NULL: none asked)
    tip,           \* the value it returned
    remembered,    \* an earlier epicycles_at_time call and what it gave (or NULL)
    heap,          \* the heap the interleaved invocations share
    proc,          \* the interleaved invocations: arguments, locals, position
    size_bits,     \* the width of size_t in the build
    ctl,           \* a core operation run statement by statement: its control state
    file,          \* the file load_path_binary is given
    load,          \* load_path_binary run statement by statement
    text,          \* the file load_path_text is given
    scan,          \* load_path_text run statement by statement
    app,           \* simple_example: the state of its event loop
    life           \* a FourierResult variable and the coefficient blocks made for it

transformVars == <<fft_output, fft_path, dft_output, ifft_output, crashed>>
analysisVars == <<result, requested, failing, trace>>
epicycleVars == <<epi_result, t, positions, tip, remembered>>
interleavedVars == <<heap, proc>>
programVars == <<text, scan, app, life>>
machineVars == <<size_bits, ctl, file, load, programVars>>
vars == <<points, n_points, called, transformVars, analysisVars, epicycleVars,
          interleavedVars, machineVars>>

(***************************************************************************)
(* Inputs.                                                                 *)
(***************************************************************************)
PointSet == {CInt(0, 0), CInt(1, 0), CInt(0, 1), CInt(1, 1)}

Divides(n) == n > 0 /\ RootOrder % n = 0
TransformSizes == {0} \cup {n \in 1..MaxN : Divides(n)}
AnalysisSizes == {0} \cup {n \in 1..MaxPoints : Divides(n)}
Times == (-1)..MaxTick

Extend(f, n, v) == [i \in 0..n |-> IF i = n THEN v ELSE f[i]]

\* the arrays of n points of PointSet with at most w non-zero entries
RECURSIVE Sparse(_, _)
Sparse(n, w) ==
    IF n = 0 THEN {<<>>}
    ELSE {Extend(f, n - 1, CZero) : f \in Sparse(n - 1, w)}
         \cup (IF w = 0 THEN {}
               ELSE {Extend(f, n - 1, v) :
                        f \in Sparse(n - 1, w - 1), v \in PointSet \ {CZero}})

\* the point sequences whose spectrum has an exact polar form in the field
Analysable(pts, n) ==
    LET spectrum == fft(pts, n, Buffer(n))
    IN  \A i \in 0..(n - 1) : PolarExact(spectrum[i])

\* sizeof(Complex): two doubles
SizeofComplex == 16

\* The width of size_t: that of int (an ILP32 build), or twice that (LP64).
NarrowBits == IntBits
WideBits == 2 * IntBits
SizeWidths == {NarrowBits, WideBits}

\* the size_t value of x in a build whose size_t has w bits
SizeT(x, w) == x % (2^w)

\* no statement-level run is in progress
IdleControl ==
    [op |-> "none", pc |-> "return", stack |-> <<>>, has_result |-> FALSE,
     n |-> 0, count |-> 0, temp |-> 0, bits |-> 0, i |-> 0, b |-> 0,
     rev |-> 0, temp_i |-> 0, s |-> 0, m |-> 0, k |-> 0, j |-> 0,
     slots |-> <<>>, writes |-> <<>>, touched |-> <<>>, stages |-> 0,
     fault |-> "none"]
IdleFile == [exists |-> FALSE, header |-> NULL, doubles |-> 0]
IdleLoad ==
    [pc |-> "return", open |-> FALSE, count |-> 0, bytes |-> 0, points |-> NULL,
     mem |-> <<>>, freed |-> FALSE, i |-> 0, pos |-> 0, real |-> 0, imag |-> 0,
     ret |-> NULL, n_points |-> Uninit]
\* load_path_text and simple_example are not running
IdlePrograms ==
    /\ text = NULL
    /\ scan = NULL
    /\ app = NULL
    /\ life = NULL

IdleMachine ==
    /\ IdlePrograms
    /\ size_bits = WideBits
    /\ ctl = IdleControl
    /\ file = IdleFile
    /\ load = IdleLoad

IdleCaller ==
    /\ fft_output = Buffer(n_points)
    /\ fft_path = "none"
    /\ dft_output = Buffer(n_points)
    /\ ifft_output = Buffer(n_points)
    /\ called = {}
    /\ crashed = FALSE
    /\ result = EmptyResult
    /\ requested = 0
    /\ failing = 0
    /\ trace = <<>>
    /\ epi_result = NULL
    /\ t = 0
    /\ positions = NULL
    /\ tip = CZero
    /\ remembered = NULL
    /\ heap = [allocated |-> {}, mem |-> <<>>]
    /\ proc = <<>>

InitCaller == IdleMachine /\ IdleCaller

(***************************************************************************)
(* The transform engine driven by a caller: SpecTransform.                 *)
(***************************************************************************)
InitTransform ==
    /\ n_points \in TransformSizes
    /\ points \in Sparse(n_points, MaxNonzero)
    /\ InitCaller

Fft ==
    /\ ~crashed
    /\ fft_output' = fft(points, n_points, fft_output)
    /\ fft_path' = FftPath(n_points)
    /\ called' = called \cup {"fft"}
    /\ UNCHANGED <<points, n_points, dft_output, ifft_output, crashed>>
    /\ UNCHANGED <<analysisVars, epicycleVars, interleavedVars, machineVars>>

Dft ==
    /\ ~crashed
    /\ dft_output' = dft(points, n_points, dft_output)
    /\ called' = called \cup {"dft"}
    /\ UNCHANGED <<points, n_points, fft_output, fft_path, ifft_output, crashed>>
    /\ UNCHANGED <<analysisVars, epicycleVars, interleavedVars, machineVars>>

\* ifft on the spectrum fft produced.  On the power-of-two path malloc may
\* return NULL, and ifft stores through it unchecked (fft.c:105-108).
Ifft ==
    /\ ~crashed
    /\ "fft" \in called
    /\ \E temp \in {NULL, Ptr(Buffer(n_points))} :
         IF is_power_of_2(n_points) /\ temp = NULL
         THEN /\ crashed' = TRUE
              /\ UNCHANGED <<ifft_output, called>>
         ELSE /\ ifft_output' = ifft(fft_output, n_points, ifft_output)
              /\ called' = called \cup {"ifft"}
              /\ UNCHANGED crashed
    /\ UNCHANGED <<points, n_points, fft_output, fft_path, dft_output>>
    /\ UNCHANGED <<analysisVars, epicycleVars, interleavedVars, machineVars>>

NextTransform == Fft \/ Dft \/ Ifft

SpecTransform == InitTransform /\ [][NextTransform]_vars

(***************************************************************************)
(* The analyzer and the reconstructor driven by a caller: Spec.  The       *)
(* caller follows examples/simple_example/main.c: it analyses its points,  *)
(* samples the result at some time, and frees the result before it         *)
(* analyses again.  The state keeps the most recent sample only.           *)
(***************************************************************************)
Init ==
    /\ n_points \in AnalysisSizes
    /\ points \in [0..(n_points - 1) -> PointSet]
    /\ Analysable(points, n_points)
    /\ InitCaller

\* result = fourier_analyze(points, n_points, n_coeffs).  The caller has a
\* fresh positions buffer for the new result (main.c:283-284).
FourierAnalyze ==
    /\ "fourier_analyze" \notin called
    /\ \E n_coeffs \in 0..MaxCoeffs, fail \in 0..3 :
         /\ result' \in fourier_analyze(points, n_points, n_coeffs, fail)
         /\ requested' = n_coeffs
         /\ failing' = IF n_points = 0 \/ n_coeffs = 0 THEN 0 ELSE fail
         /\ trace' = fourier_analyze_trace(n_points, n_coeffs, fail)
    /\ called' = {"fourier_analyze"}
    /\ UNCHANGED <<points, n_points, transformVars, epicycleVars, interleavedVars, machineVars>>

\* tip = epicycles_at_time(r, time, positions): r is NULL, &result, or a
\* FourierResult the caller filled in itself with count = 0
EpicyclesAtTime ==
    /\ "fourier_analyze" \in called
    /\ "epicycles_at_time" \notin called
    /\ \E r \in {NULL, Ptr(result), Ptr([result EXCEPT !.count = 0])},
          time \in Times, log \in {NULL, Ptr(<<>>)} :
         LET out == epicycles_at_time(r, time, log)
         IN  /\ epi_result' = r
             /\ t' = time
             /\ positions' = out.positions
             /\ tip' = out.tip
    /\ called' = called \cup {"epicycles_at_time"}
    /\ UNCHANGED <<points, n_points, transformVars, analysisVars, remembered>>
    /\ UNCHANGED <<interleavedVars, machineVars>>

\* fourier_result_free(&result); the caller drops its positions buffer with it
FourierResultFree ==
    /\ "fourier_analyze" \in called
    /\ result' = fourier_result_free(Ptr(result))
    /\ requested' = 0
    /\ failing' = 0
    /\ trace' = <<>>
    /\ called' = {}
    /\ epi_result' = NULL
    /\ t' = 0
    /\ positions' = NULL
    /\ tip' = CZero
    /\ UNCHANGED <<remembered, interleavedVars, machineVars>>
    /\ UNCHANGED <<points, n_points, transformVars>>

Next == FourierAnalyze \/ EpicyclesAtTime \/ FourierResultFree

Spec == Init /\ [][Next]_vars

(***************************************************************************)
(* The reconstructor called again and again on one result: SpecReplay.     *)
(* The caller follows the drawing loop of examples/simple_example/main.c   *)
(* (lines 503 and 512): it samples the same result at any times, in any    *)
(* order, and passes the same positions buffer to every call, so a call    *)
(* finds in the buffer what the calls before it stored.  One earlier call  *)
(* is remembered, with the trail it left, to compare later calls with.     *)
(***************************************************************************)
\* count of the FourierResult r points to, as epicycles_at_time reads it
\* (fourier.c:97)
CountOf(r) == IF r = NULL \/ r.at.coefficients = NULL THEN 0 ELSE r.at.count

\* the trail a call on r leaves the caller: positions[0..count], as far as
\* the buffer has ever been stored to
TrailOf(r, log) ==
    [k \in (0..CountOf(r)) \cap DOMAIN log.at |-> log.at[k]]

\* the inputs of the replay: at most one point off the origin, at 1 + i
InitReplay ==
    /\ n_points \in AnalysisSizes
    /\ points \in Sparse(n_points, 1)
    /\ \A i \in 0..(n_points - 1) : points[i] \in {CZero, CInt(1, 1)}
    /\ Analysable(points, n_points)
    /\ InitCaller

\* result = fourier_analyze(points, n_points, n_points): every coefficient is
\* kept and no allocation fails
AnalyzeAll ==
    /\ "fourier_analyze" \notin called
    /\ result' \in fourier_analyze(points, n_points, n_points, 0)
    /\ requested' = n_points
    /\ failing' = 0
    /\ trace' = fourier_analyze_trace(n_points, n_points, 0)
    /\ called' = {"fourier_analyze"}
    /\ UNCHANGED <<points, n_points, transformVars, epicycleVars, interleavedVars, machineVars>>

Replay ==
    /\ "fourier_analyze" \in called
    /\ \E r \in {NULL, Ptr(result)}, time \in Times,
          remember \in (IF remembered = NULL THEN BOOLEAN ELSE {FALSE}) :
         LET out == epicycles_at_time(r, time, IF positions = NULL
                                               THEN Ptr(<<>>) ELSE positions)
         IN  /\ epi_result' = r
             /\ t' = time
             /\ positions' = out.positions
             /\ tip' = out.tip
             /\ remembered' =
                   IF remember
                   THEN Ptr([r |-> r, t |-> time, tip |-> out.tip,
                             trail |-> TrailOf(r, out.positions),
                             stored |-> DOMAIN out.positions.at,
                             result |-> result])
                   ELSE remembered
    /\ called' = called \cup {"epicycles_at_time"}
    /\ UNCHANGED <<points, n_points, transformVars, analysisVars, interleavedVars, machineVars>>

NextReplay == AnalyzeAll \/ Replay

SpecReplay == InitReplay /\ [][NextReplay]_vars

(***************************************************************************)
(* Invocations interleaved: SpecInterleaved.  Each of two callers analyses *)
(* its own points and samples its own result, as in main.c:202-245 and     *)
(* 512; the two run fourier_analyze and epicycles_at_time statement by     *)
(* statement in any interleaving.  They share nothing but the heap: heap   *)
(* is the set of allocated blocks and the contents of every block; a free  *)
(* block holds nothing.                                                    *)
(***************************************************************************)
Procs == {1, 2}

FreeBlocks(h) == {b \in 1..MaxBlocks : b \notin h.allocated}

\* what malloc may return: NULL, or the lowest free block
malloc(h) ==
    IF FreeBlocks(h) = {} THEN {NULL}
    ELSE {NULL, Ptr(CHOOSE b \in FreeBlocks(h) : \A c \in FreeBlocks(h) : b <= c)}

\* the spectrum buffer made static: every invocation is given block MaxBlocks
MallocSpectrum_Static(h) == {NULL, Ptr(MaxBlocks)}

\* fourier.c:33
MallocSpectrum(h) == malloc(h)

\* the heap after malloc returned q, after free(q), after a store of v to block b
Allocate(h, q) == IF q = NULL THEN h ELSE [h EXCEPT !.allocated = @ \cup {q.at}]
Release(h, q) ==
    IF q = NULL THEN h
    ELSE [h EXCEPT !.allocated = @ \ {q.at}, !.mem[q.at] = <<>>]
Poke(h, b, v) == [h EXCEPT !.mem[b] = v]

\* the FourierResult res, with the coefficients the heap holds for it
ResultView(h, res) ==
    [coefficients |-> IF res.coefficients = NULL THEN NULL
                      ELSE Ptr(memcpy(h.mem[res.coefficients.at], res.count)),
     count |-> res.count]

\* the arguments of an invocation: points of n entries, n_coeffs
InterleavedInputs ==
    {[n |-> 2, points |-> (0 :> COne) @@ (1 :> COne), n_coeffs |-> 2],
     [n |-> 2, points |-> (0 :> COne) @@ (1 :> CZero), n_coeffs |-> 1],
     [n |-> 1, points |-> (0 :> CInt(0, 1)), n_coeffs |-> 0]}

InitInterleaved ==
    /\ n_points \in {0}
    /\ points = <<>>
    /\ fft_output = Buffer(n_points)
    /\ fft_path = "none"
    /\ dft_output = Buffer(n_points)
    /\ ifft_output = Buffer(n_points)
    /\ called = {}
    /\ crashed = FALSE
    /\ result = EmptyResult
    /\ requested = 0
    /\ failing = 0
    /\ trace = <<>>
    /\ epi_result = NULL
    /\ t = 0
    /\ positions = NULL
    /\ tip = CZero
    /\ remembered = NULL
    /\ IdleMachine
    /\ \E in1, in2 \in InterleavedInputs :
         LET arg == <<in1, in2>>
         IN  /\ heap = [allocated |-> Procs,
                        mem |-> [b \in 1..MaxBlocks |->
                                   IF b \in Procs
                                   THEN memcpy(arg[b].points, arg[b].n)
                                   ELSE <<>>]]
             /\ proc = [p \in Procs |->
                          [pc |-> "call",
                           points |-> Ptr(p),
                           given |-> memcpy(arg[p].points, arg[p].n),
                           alone |-> {EmptyResult} \cup
                                     fourier_analyze(memcpy(arg[p].points, arg[p].n),
                                                     arg[p].n, arg[p].n_coeffs, 0),
                           n_points |-> arg[p].n,
                           n_coeffs |-> arg[p].n_coeffs,
                           fft_output |-> NULL,
                           all_coeffs |-> NULL,
                           result |-> EmptyResult,
                           positions |-> NULL,
                           t |-> 0,
                           tip |-> CZero]]

otherVars == <<points, n_points, called, transformVars, analysisVars, epicycleVars,
               machineVars>>

\* fourier.c:19-30
Enter(p) ==
    /\ proc[p].pc = "call"
    /\ proc' = [proc EXCEPT
                  ![p].result = EmptyResult,
                  ![p].n_coeffs = ClampCount(@, proc[p].n_points),
                  ![p].pc = IF proc[p].n_points = 0 \/ proc[p].n_coeffs = 0
                            THEN "returned" ELSE "malloc_fft_output"]
    /\ UNCHANGED <<heap, otherVars>>

\* fourier.c:33-36
MallocFftOutput(p) ==
    /\ proc[p].pc = "malloc_fft_output"
    /\ \E q \in MallocSpectrum(heap) :
         /\ heap' = Allocate(heap, q)
         /\ proc' = [proc EXCEPT ![p].fft_output = q,
                                 ![p].pc = IF q = NULL THEN "returned" ELSE "fft"]
    /\ UNCHANGED otherVars

\* fourier.c:38
CallFftOutput(p) ==
    /\ proc[p].pc = "fft"
    /\ heap' = Poke(heap, proc[p].fft_output.at,
                    fft(heap.mem[proc[p].points.at], proc[p].n_points,
                        heap.mem[proc[p].fft_output.at]))
    /\ proc' = [proc EXCEPT ![p].pc = "malloc_all_coeffs"]
    /\ UNCHANGED otherVars

\* fourier.c:41-45
MallocAllCoeffs(p) ==
    /\ proc[p].pc = "malloc_all_coeffs"
    /\ \E q \in malloc(heap) :
         /\ heap' = IF q = NULL THEN Release(heap, proc[p].fft_output)
                    ELSE Allocate(heap, q)
         /\ proc' = [proc EXCEPT ![p].all_coeffs = q,
                                 ![p].pc = IF q = NULL THEN "returned" ELSE "extract"]
    /\ UNCHANGED otherVars

\* fourier.c:47-60
Extract(p) ==
    /\ proc[p].pc = "extract"
    /\ heap' = Poke(heap, proc[p].all_coeffs.at,
                    ExtractLoop(heap.mem[proc[p].fft_output.at],
                                heap.mem[proc[p].all_coeffs.at],
                                proc[p].n_points, 0))
    /\ proc' = [proc EXCEPT ![p].pc = "qsort"]
    /\ UNCHANGED otherVars

\* fourier.c:63
Sort(p) ==
    /\ proc[p].pc = "qsort"
    /\ \E sorted \in qsort(heap.mem[proc[p].all_coeffs.at], proc[p].n_points) :
         heap' = Poke(heap, proc[p].all_coeffs.at, sorted)
    /\ proc' = [proc EXCEPT ![p].pc = "malloc_coefficients"]
    /\ UNCHANGED otherVars

\* fourier.c:66-71
MallocCoefficients(p) ==
    /\ proc[p].pc = "malloc_coefficients"
    /\ \E q \in malloc(heap) :
         /\ heap' = IF q = NULL
                    THEN Release(Release(heap, proc[p].all_coeffs), proc[p].fft_output)
                    ELSE Allocate(heap, q)
         /\ proc' = [proc EXCEPT ![p].result.coefficients = q,
                                 ![p].pc = IF q = NULL THEN "returned" ELSE "memcpy"]
    /\ UNCHANGED otherVars

\* fourier.c:73-74
Copy(p) ==
    /\ proc[p].pc = "memcpy"
    /\ heap' = Poke(heap, proc[p].result.coefficients.at,
                    memcpy(heap.mem[proc[p].all_coeffs.at], proc[p].n_coeffs))
    /\ proc' = [proc EXCEPT ![p].result.count = proc[p].n_coeffs,
                            ![p].pc = "free"]
    /\ UNCHANGED otherVars

\* fourier.c:77-80
Cleanup(p) ==
    /\ proc[p].pc = "free"
    /\ heap' = Release(Release(heap, proc[p].all_coeffs), proc[p].fft_output)
    /\ proc' = [proc EXCEPT ![p].pc = "returned"]
    /\ UNCHANGED otherVars

\* the caller's positions buffer of count + 1 entries (main.c:245)
MallocPositions(p) ==
    /\ proc[p].pc = "returned"
    /\ \E q \in malloc(heap) :
         /\ heap' = Allocate(heap, q)
         /\ proc' = [proc EXCEPT ![p].positions = q, ![p].pc = "sample"]
    /\ UNCHANGED otherVars

\* tip = epicycles_at_time(&result, time, positions) (main.c:512)
Sample(p) ==
    /\ proc[p].pc = "sample"
    /\ \E time \in Times :
         LET log == IF proc[p].positions = NULL THEN NULL
                    ELSE Ptr(heap.mem[proc[p].positions.at])
             out == epicycles_at_time(Ptr(ResultView(heap, proc[p].result)),
                                      time, log)
         IN  /\ heap' = IF log = NULL THEN heap
                        ELSE Poke(heap, proc[p].positions.at, out.positions.at)
             /\ proc' = [proc EXCEPT ![p].t = time, ![p].tip = out.tip,
                                     ![p].pc = "done"]
    /\ UNCHANGED otherVars

NextInterleaved ==
    \E p \in Procs :
        \/ Enter(p)
        \/ MallocFftOutput(p)
        \/ CallFftOutput(p)
        \/ MallocAllCoeffs(p)
        \/ Extract(p)
        \/ Sort(p)
        \/ MallocCoefficients(p)
        \/ Copy(p)
        \/ Cleanup(p)
        \/ MallocPositions(p)
        \/ Sample(p)

SpecInterleaved == InitInterleaved /\ [][NextInterleaved]_vars

(***************************************************************************)
(* Properties of the transform engine, checked under SpecTransform.        *)
(***************************************************************************)
Nonzeros == {i \in 0..(n_points - 1) : points[i] # CZero}

\* the sum of F(j) for j in 0..(n-1)
RECURSIVE SumTo(_, _)
SumTo(F(_), n) == IF n = 0 THEN CZero ELSE CAdd(SumTo(F, n - 1), F(n - 1))

\* C5: round trip.  Whenever ifft has returned, on the spectrum fft produced
\* from the points, its output equals the points component-wise, on the
\* power-of-two path and on the direct path.
C5_RoundTrip ==
    "ifft" \in called => \A i \in 0..(n_points - 1) : ifft_output[i] = points[i]

C5_Witness ==
    /\ "ifft" \in called
    /\ is_power_of_2(n_points)
    /\ n_points = MaxN
    /\ Cardinality(Nonzeros) >= 2
    /\ ifft_output # fft_output

\* C6: cross-check.  For every size of the model (1, 2, 3 and 8 among them)
\* and every input, fft and dft leave the same spectrum.
C6_CrossCheck ==
    {"fft", "dft"} \subseteq called =>
        \A k \in 0..(n_points - 1) : fft_output[k] = dft_output[k]

C6_Witness ==
    /\ {"fft", "dft"} \subseteq called
    /\ is_power_of_2(n_points)
    /\ n_points = MaxN
    /\ Cardinality(Nonzeros) >= 2
    /\ \E j, k \in 0..(n_points - 1) : fft_output[j] # fft_output[k]

\* C7: the forward transform is the unnormalized DFT sum divided by n exactly
\* once, on the fast path (fft) and on the direct path (dft): n times
\* output[k] is the sum over j of points[j] * exp(-2*pi*i*j*k/n), and
\* output[0] is the arithmetic mean of the points.
UnnormalizedSum(k) ==
    SumTo(LAMBDA j : CMulUnit(points[j], TwoPi(-(j * k), n_points)), n_points)

Mean == CDivInt(SumTo(LAMBDA j : points[j], n_points), n_points)

NormalizedOnce(output) ==
    /\ \A k \in 0..(n_points - 1) : CScale(output[k], n_points) = UnnormalizedSum(k)
    /\ n_points >= 1 => output[0] = Mean

C7_NormalizedOnce ==
    /\ "fft" \in called => NormalizedOnce(fft_output)
    /\ "dft" \in called => NormalizedOnce(dft_output)

C7_Witness ==
    /\ {"fft", "dft"} \subseteq called
    /\ is_power_of_2(n_points)
    /\ n_points >= 4
    /\ fft_output[0] # CZero
    /\ CScale(fft_output[0], n_points) # fft_output[0]

\* C23: for a power-of-two n, what ifft leaves in output by the conjugation
\* route (conjugate and scale by n, fft, conjugate) is, entry by entry, the
\* direct inverse sum over k of coefficients[k] * exp(+2*pi*i*k*i/n), without
\* a factor 1/n: the loop ifft runs for the other sizes, here run on the
\* same spectrum.
C23_ConjugationIsInverseSum ==
    ("ifft" \in called /\ is_power_of_2(n_points)) =>
        ifft_output = InverseLoop(fft_output, n_points, Buffer(n_points), 0)

C23_Witness ==
    /\ "ifft" \in called
    /\ is_power_of_2(n_points)
    /\ n_points >= 4
    /\ \E i \in 0..(n_points - 1) : ~IsReal(ifft_output[i])
    /\ \E k \in 0..(n_points - 1) : ~IsReal(fft_output[k])

(***************************************************************************)
(* Properties of the analyzer and the reconstructor, checked under Spec.   *)
(***************************************************************************)
Min(a, b) == IF a < b THEN a ELSE b

\* fourier_analyze has just returned / has just returned coefficients
Analysed == called = {"fourier_analyze"}
Succeeded == Analysed /\ result.coefficients # NULL
Sampled == "epicycles_at_time" \in called

\* the coefficients of the result, an array of result.count entries
Coeffs == result.coefficients.at

\* the centered frequency of spectrum index i, as the specification states it
Centered(i, n) == IF i <= n \div 2 THEN i ELSE i - n

\* <<i, coefficient of spectrum index i>> for the n_points indices
FullCoefficients ==
    LET spectrum == fft(points, n_points, Buffer(n_points))
    IN  {<<i, [amplitude |-> cabs(spectrum[i]),
               frequency |-> Centered(i, n_points),
               phase |-> carg(spectrum[i])]>> : i \in 0..(n_points - 1)}

\* C1: on success the returned coefficients are the (amplitude, centered
\* frequency, phase) triples of min(k, n) pairwise-distinct spectrum indices,
\* and no spectrum entry left out has a larger amplitude than one returned.
C1_LargestAmplitudes ==
    Succeeded =>
        LET full == FullCoefficients
            InResult(c) == {j \in 0..(result.count - 1) : Coeffs[j] = c}
            InFull(c) == {e \in full : e[2] = c}
        IN  /\ result.count = Min(requested, n_points)
            /\ \A j \in 0..(result.count - 1) :
                  /\ InFull(Coeffs[j]) # {}
                  /\ Cardinality(InResult(Coeffs[j])) <= Cardinality(InFull(Coeffs[j]))
            /\ \A e \in full :
                  Cardinality(InResult(e[2])) < Cardinality(InFull(e[2])) =>
                      \A j \in 0..(result.count - 1) :
                          ~RealLess(Coeffs[j].amplitude, e[2].amplitude)

\* some but not all entries were kept, and one left out is strictly smaller
C1_Witness ==
    /\ Succeeded
    /\ n_points = 4
    /\ result.count = 2
    /\ RealLess(Coeffs[1].amplitude, Coeffs[0].amplitude)
    /\ \E e \in FullCoefficients :
          /\ RealLess(e[2].amplitude, Coeffs[1].amplitude)
          /\ RealLess(CZero, e[2].amplitude)

\* C2: for n >= 1 and k >= 1, when no allocation fails, the result holds
\* exactly min(k, n) coefficients and result.count is that number.
C2_ClampedCount ==
    (Analysed /\ n_points >= 1 /\ requested >= 1 /\ failing = 0) =>
        /\ result.count = Min(requested, n_points)
        /\ result.coefficients # NULL
        /\ DOMAIN Coeffs = 0..(result.count - 1)

C2_Witness ==
    /\ Analysed
    /\ failing = 0
    /\ n_points >= 3
    /\ requested > n_points
    /\ result.count = n_points

\* C3: the returned coefficients are in non-increasing amplitude order.
C3_NonIncreasing ==
    Succeeded =>
        \A i \in 0..(result.count - 2) :
            ~RealLess(Coeffs[i].amplitude, Coeffs[i + 1].amplitude)

C3_Witness ==
    /\ Succeeded
    /\ result.count = 4
    /\ RealLess(Coeffs[1].amplitude, Coeffs[0].amplitude)
    /\ Coeffs[1].amplitude = Coeffs[2].amplitude
    /\ RealLess(Coeffs[3].amplitude, Coeffs[2].amplitude)

SampledCount == IF epi_result = NULL THEN 0 ELSE epi_result.at.count

\* C8: for a result with count = m and any t, epicycles_at_time stores to
\* exactly the m + 1 trail positions 0..m, and position 0 is the origin.
C8_TrailLength ==
    (Sampled /\ positions # NULL) =>
        /\ DOMAIN positions.at = 0..SampledCount
        /\ positions.at[0] = CZero

C8_Witness ==
    /\ Sampled
    /\ positions # NULL
    /\ SampledCount = 3
    /\ t # 0
    /\ positions.at[1] # CZero
    /\ positions.at[3] # positions.at[1]

\* the sum of the contributions of the first k coefficients at time t
PartialSum(k) ==
    SumTo(LAMBDA i :
            LET c == epi_result.at.coefficients.at[i]
            IN  CMulUnit(c.amplitude, c.phase + t * c.frequency),
          k)

\* C9: for a result with count = m >= 1 and any t, positions[k] for k in 1..m
\* is the sum of amplitude_i * exp(i*(phase_i + t*frequency_i)) over the first
\* k coefficients, and the returned tip is that sum for k = m.
C9_CumulativeSums ==
    (Sampled /\ SampledCount >= 1) =>
        /\ tip = PartialSum(SampledCount)
        /\ positions # NULL =>
              \A k \in 1..SampledCount : positions.at[k] = PartialSum(k)

C9_Witness ==
    /\ Sampled
    /\ positions # NULL
    /\ SampledCount >= 2
    /\ t = -1
    /\ \E i \in 0..(SampledCount - 1) :
          LET c == epi_result.at.coefficients.at[i]
          IN  c.frequency < 0 /\ c.phase # 0 /\ c.amplitude # CZero
    /\ tip = positions.at[SampledCount]
    /\ tip # positions.at[1]
    /\ tip # CZero

\* C10: on an empty result (a NULL result, NULL coefficients, or count = 0)
\* epicycles_at_time returns the origin and stores one trail element,
\* positions[0] = origin, for every t.
EmptyGiven ==
    \/ epi_result = NULL
    \/ epi_result.at.coefficients = NULL
    \/ epi_result.at.count = 0

C10_EmptyResult ==
    (Sampled /\ EmptyGiven) =>
        /\ tip = CZero
        /\ positions # NULL =>
              /\ DOMAIN positions.at = {0}
              /\ positions.at[0] = CZero

\* the caller's own struct: coefficients present, count = 0
C10_Witness ==
    /\ Sampled
    /\ epi_result # NULL
    /\ epi_result.at.coefficients # NULL
    /\ epi_result.at.count = 0
    /\ t # 0
    /\ positions # NULL
    /\ tip = CZero

\* C11: fourier_analyze with n_points = 0 (any k) or n_coeffs = 0 (any n)
\* returns the empty result, count 0 and no coefficients, and makes no call of
\* malloc and no call of fft.
C11_DegenerateInput ==
    (Analysed /\ (n_points = 0 \/ requested = 0)) =>
        /\ result.count = 0
        /\ result.coefficients = NULL
        /\ trace = <<>>

\* points were given, none was asked for
C11_Witness ==
    /\ Analysed
    /\ n_points >= 2
    /\ requested = 0
    /\ result.count = 0

\* the result fourier_analyze returns for degenerate input
DegenerateResult == CHOOSE r \in fourier_analyze(<<>>, 0, 1, 0) : TRUE

\* C12: a result returned after an allocation failure differs from the
\* non-failed empty result returned for degenerate input.
C12_DistinguishableFailure ==
    (Analysed /\ failing # 0) => result # DegenerateResult

\* C13: when one of the three allocations fails, the result has
\* coefficients = NULL and count = 0, and no block the call allocated is left
\* allocated.
C13_FailureReleasesAll ==
    (Analysed /\ failing # 0) =>
        /\ result.coefficients = NULL
        /\ result.count = 0
        /\ \E i \in 1..Len(trace) : trace[i].op = "malloc" /\ ~trace[i].ok
        /\ Live(trace, 1, {}) = {}

\* the third allocation failed, after two buffers were allocated
C13_Witness ==
    /\ Analysed
    /\ failing = 3
    /\ n_points >= 2
    /\ Cardinality({i \in 1..Len(trace) : trace[i].op = "free"}) = 2

(***************************************************************************)
(* Further properties of the transform engine, under SpecTransform.        *)
(***************************************************************************)
\* C14: a failed allocation of the temporary buffer of ifft never leads to a
\* store through the null pointer: no call leaves the program in an undefined
\* state.
C14_AllocationFailureReturned == ~crashed

\* C15: fft takes the radix-2 path exactly when n > 0 and n & (n - 1) = 0;
\* for every other n it takes the dft path and leaves what dft leaves.
C15_PowerOfTwoRouting ==
    "fft" \in called =>
        /\ fft_path = "radix2" <=>
              (n_points > 0 /\ BitAnd(n_points, n_points - 1) = 0)
        /\ fft_path # "radix2" =>
              /\ fft_path = "dft"
              /\ "dft" \in called => fft_output = dft_output

\* a size that is not a power of two, with a spectrum that is not constant
C15_Witness ==
    /\ {"fft", "dft"} \subseteq called
    /\ n_points = 6
    /\ fft_path = "dft"
    /\ fft_output[1] # fft_output[0]

\* every entry 0..n-1 of the buffer has been stored to, and no other index
WrittenExactly(output, n) ==
    /\ DOMAIN output = 0..(n - 1)
    /\ \A i \in 0..(n - 1) : output[i] # Uninit

\* C16: fft, dft and ifft store to each of output[0..n-1] and to no other
\* index; for n = 0 they store nothing and return.
C16_WritesExactlyN ==
    /\ "fft" \in called => WrittenExactly(fft_output, n_points)
    /\ "dft" \in called => WrittenExactly(dft_output, n_points)
    /\ "ifft" \in called => WrittenExactly(ifft_output, n_points)
    /\ n_points = 0 => fft_output = <<>> /\ dft_output = <<>> /\ ifft_output = <<>>

C16_Witness ==
    /\ called = {"fft", "dft", "ifft"}
    /\ n_points = 6
    /\ Cardinality(Nonzeros) >= 2

(***************************************************************************)
(* Properties of repeated reconstruction, under SpecReplay.                *)
(***************************************************************************)
\* C17: a call of epicycles_at_time with the (result, t) of an earlier call
\* returns the tip and leaves the trail the earlier call did, whatever calls
\* were made in between and whatever they left in the positions buffer; and
\* the result's coefficients and count are what they were at the earlier call.
C17_PureReplay ==
    (Sampled /\ remembered # NULL) =>
        /\ result = remembered.at.result
        /\ (epi_result = remembered.at.r /\ t = remembered.at.t) =>
              /\ tip = remembered.at.tip
              /\ TrailOf(epi_result, positions) = remembered.at.trail

\* the remembered call is repeated after a call on a longer result has
\* stored further into the buffer
C17_Witness ==
    /\ Sampled
    /\ remembered # NULL
    /\ epi_result = remembered.at.r
    /\ t = remembered.at.t
    /\ t # 0
    /\ CountOf(epi_result) = 0
    /\ DOMAIN positions.at # remembered.at.stored
    /\ Cardinality(DOMAIN positions.at) >= 3

(***************************************************************************)
(* Properties of interleaved invocations, under SpecInterleaved.           *)
(***************************************************************************)
\* fourier_analyze has returned to caller p
Returned(p) == proc[p].pc \in {"returned", "sample", "done"}

\* the blocks invocation p has allocated and not freed
Owned(p) ==
    LET temporary == IF proc[p].pc = "call" \/ Returned(p) THEN {}
                     ELSE {proc[p].fft_output, proc[p].all_coeffs}
        kept == {proc[p].result.coefficients, proc[p].positions}
    IN  {q.at : q \in (temporary \cup kept) \ {NULL}}

\* what fourier_analyze returns for p's arguments when run alone
AloneResults(p) == proc[p].alone

\* what holds of the two invocations in every state
IndependentState ==
    \A p \in Procs :
        /\ heap.mem[proc[p].points.at] = proc[p].given
        /\ Owned(p) \subseteq heap.allocated
        /\ \A q \in Procs \ {p} :
              Owned(p) \cap (Owned(q) \cup {proc[q].points.at}) = {}
        /\ Returned(p) => ResultView(heap, proc[p].result) \in AloneResults(p)
        /\ proc[p].pc = "done" =>
              LET alone == epicycles_at_time(Ptr(ResultView(heap, proc[p].result)),
                                             proc[p].t, Ptr(<<>>))
              IN  /\ proc[p].tip = alone.tip
                  /\ proc[p].positions # NULL =>
                        heap.mem[proc[p].positions.at] = alone.positions.at

\* no step of either invocation changes a result that was already returned
ReturnedKept ==
    \A p \in Procs :
        Returned(p) =>
            /\ proc'[p].result = proc[p].result
            /\ ResultView(heap', proc'[p].result) = ResultView(heap, proc[p].result)

\* C18: in every interleaving of the two invocations, no invocation stores to
\* its input points; the blocks of one invocation are allocated, are not
\* blocks of the other and are not the other's input (a result is backed by
\* a block of its own); the result fourier_analyze returns is a result the
\* call gives when run alone, and no later step of either invocation changes
\* it; and the tip and trail of epicycles_at_time are those the call gives
\* alone on that result.
C18_Independent == []IndependentState /\ [][ReturnedKept]_vars

\* both invocations are done, on different points; the second had allocated
\* its spectrum and coefficient buffers before the first allocated its result
C18_Witness ==
    /\ \A p \in Procs : proc[p].pc = "done" /\ proc[p].positions # NULL
    /\ proc[1].given # proc[2].given
    /\ proc[1].result.coefficients = Ptr(7)
    /\ proc[2].result.coefficients = Ptr(8)
    /\ proc[1].t # proc[2].t
    /\ proc[1].tip # proc[2].tip

(***************************************************************************)
(* The control flow of the core operations, statement by statement:       *)
(* SpecControl.  Only what the loop tests read is kept: sizes and          *)
(* counters, as size_t values of size_bits bits.  pc "return" is a return  *)
(* to the caller; pc "undefined" is an execution the language gives no     *)
(* meaning to (a trap, or a store outside the buffer), with its cause in   *)
(* fault.  Of the data, the run keeps where each entry went: slots[r] is   *)
(* the input index bit_reverse_copy stored in output[r], writes[r] the     *)
(* number of stores to output[r], touched[x] the number of butterflies of  *)
(* the current stage that read and wrote output[x], stages the number of   *)
(* stages begun.                                                           *)
(***************************************************************************)
ControlOps == {"fft", "ifft", "dft", "fourier_analyze", "epicycles_at_time"}

\* the sizes a call is made with
ControlSizes == {n \in 0..MaxSize : n <= 6 \/ is_power_of_2(n)}

\* an array of n Complex exists in the build: its size is a size_t
Addressable(n, w) == n * SizeofComplex < 2^w

\* return: to the caller, or to the statement after the call
Return(c) ==
    IF c.stack = <<>> THEN [c EXCEPT !.pc = "return"]
    ELSE [c EXCEPT !.pc = Head(c.stack), !.stack = Tail(c.stack)]

\* call op, to come back at pc back
Call(c, op, back) == [c EXCEPT !.pc = op, !.stack = <<back>> \o c.stack]

\* fft.c:70, 1 << s: the shift is made in int and the int is converted to
\* size_t.  For s < IntBits - 1 the value is 2^s.  For s = IntBits - 1 the
\* result is not representable in int and for s >= IntBits the count is not
\* less than the width: both undefined.  What builds make of it: a trap; the
\* sign bit set and sign-extended, or zero-extended; the count masked to the
\* width of int; zero; the shift made in a register of the width of size_t.
\* a counter for each of the n entries
Zeros(n) == [x \in 0..(n - 1) |-> 0]
Bump(f, x) == [f EXCEPT ![x] = f[x] + 1]

\* fft.c:46 without the shift of rev
RevBit_NoShift(rev, temp_i, w) == SizeT(rev + (temp_i % 2), w)

\* fft.c:46, rev = (rev << 1) | (temp_i & 1)
RevBit(rev, temp_i, w) == SizeT(2 * rev + (temp_i % 2), w)

ShiftLeftOne(s, w) ==
    IF s < IntBits - 1 THEN {[trap |-> FALSE, m |-> 2^s]}
    ELSE {[trap |-> TRUE, m |-> 0]} \cup
         {[trap |-> FALSE, m |-> v] :
            v \in IF s = IntBits - 1
                  THEN {2^w - 2^s, 2^s}
                  ELSE {2^(s % IntBits), 0} \cup (IF s < w THEN {2^s} ELSE {})}

InitControl ==
    /\ n_points \in {0}
    /\ points = <<>>
    /\ called = {}
    /\ IdleCaller
    /\ IdlePrograms
    /\ file = IdleFile
    /\ load = IdleLoad
    /\ size_bits \in SizeWidths
    /\ \E op \in ControlOps, n \in ControlSizes, count \in {0, 1, 3, MaxSize + 1},
          has \in BOOLEAN :
         /\ Addressable(n, size_bits)
         /\ op \in {"fft", "ifft", "dft"} => count = 0 /\ has
         /\ op = "fourier_analyze" => has
         /\ op = "epicycles_at_time" => n = 0 /\ count <= 3
         /\ ctl = [IdleControl EXCEPT !.op = op, !.pc = op, !.n = n,
                                      !.count = count, !.has_result = has]

controlRest == <<points, n_points, called, transformVars, analysisVars, epicycleVars,
                 interleavedVars, size_bits, file, load, programVars>>

\* fft.c:59-66
FftEnter ==
    /\ ctl.pc = "fft"
    /\ ctl' = IF ~is_power_of_2(ctl.n) THEN [ctl EXCEPT !.pc = "dft", !.k = 0]
              ELSE [ctl EXCEPT !.pc = "bits", !.bits = 0, !.temp = ctl.n,
                               !.slots = Buffer(ctl.n), !.writes = Zeros(ctl.n)]
    /\ UNCHANGED controlRest

\* fft.c:37-40
BitsLoop ==
    /\ ctl.pc = "bits"
    /\ ctl' = IF ctl.temp > 1
              THEN [ctl EXCEPT !.bits = SizeT(ctl.bits + 1, size_bits),
                               !.temp = ctl.temp \div 2]
              ELSE [ctl EXCEPT !.pc = "rev_outer", !.i = 0]
    /\ UNCHANGED controlRest

\* fft.c:42-44, and the end of bit_reverse_copy
RevOuter ==
    /\ ctl.pc = "rev_outer"
    /\ ctl' = IF ctl.i < ctl.n
              THEN [ctl EXCEPT !.pc = "rev_inner", !.rev = 0, !.temp_i = ctl.i,
                               !.b = 0]
              ELSE [ctl EXCEPT !.pc = "stage", !.s = 1]
    /\ UNCHANGED controlRest

\* fft.c:45-49
RevInner ==
    /\ ctl.pc = "rev_inner"
    /\ ctl' = IF ctl.b < ctl.bits
              THEN [ctl EXCEPT !.rev = RevBit(ctl.rev, ctl.temp_i, size_bits),
                               !.temp_i = ctl.temp_i \div 2,
                               !.b = SizeT(ctl.b + 1, size_bits)]
              ELSE IF ctl.rev >= ctl.n
                   THEN [ctl EXCEPT !.pc = "undefined", !.fault = "index"]
              ELSE [ctl EXCEPT !.slots = Store(ctl.slots, ctl.rev, ctl.i),
                               !.writes = Bump(ctl.writes, ctl.rev),
                               !.pc = "rev_outer",
                               !.i = SizeT(ctl.i + 1, size_bits)]
    /\ UNCHANGED controlRest

\* fft.c:69, the test s <= log2(n)
StageTest ==
    /\ ctl.pc = "stage"
    /\ ctl' = IF ctl.s <= ShiftCount(ctl.n) THEN [ctl EXCEPT !.pc = "shift"]
              ELSE [ctl EXCEPT !.pc = "normalize", !.i = 0]
    /\ UNCHANGED controlRest

\* fft.c:70-71
Shift ==
    /\ ctl.pc = "shift"
    /\ \E o \in ShiftLeftOne(ctl.s, size_bits) :
         ctl' = IF o.trap THEN [ctl EXCEPT !.pc = "undefined", !.fault = "shift"]
                ELSE [ctl EXCEPT !.pc = "block", !.m = o.m, !.k = 0,
                                 !.touched = Zeros(ctl.n),
                                 !.stages = ctl.stages + 1]
    /\ UNCHANGED controlRest

\* fft.c:73-74, and the step of the stage loop
BlockTest ==
    /\ ctl.pc = "block"
    /\ ctl' = IF ctl.k < ctl.n THEN [ctl EXCEPT !.pc = "butterfly", !.j = 0]
              ELSE [ctl EXCEPT !.pc = "stage", !.s = SizeT(ctl.s + 1, size_bits)]
    /\ UNCHANGED controlRest

\* fft.c:75-81, and the step k += m of the block loop
Butterfly ==
    /\ ctl.pc = "butterfly"
    /\ ctl' = IF ctl.j < ctl.m \div 2
              THEN LET lower == SizeT(ctl.k + ctl.j, size_bits)
                       upper == SizeT(ctl.k + ctl.j + ctl.m \div 2, size_bits)
                   IN  IF lower >= ctl.n \/ upper >= ctl.n
                       THEN [ctl EXCEPT !.pc = "undefined", !.fault = "index"]
                       ELSE [ctl EXCEPT !.touched = Bump(Bump(ctl.touched, lower),
                                                         upper),
                                        !.j = SizeT(ctl.j + 1, size_bits)]
              ELSE [ctl EXCEPT !.pc = "block", !.k = SizeT(ctl.k + ctl.m, size_bits)]
    /\ UNCHANGED controlRest

\* fft.c:86-89
Normalize ==
    /\ ctl.pc = "normalize"
    /\ ctl' = IF ctl.i < ctl.n THEN [ctl EXCEPT !.i = SizeT(ctl.i + 1, size_bits)]
              ELSE Return(ctl)
    /\ UNCHANGED controlRest

\* fft.c:127-129, and the return of dft
DftOuter ==
    /\ ctl.pc = "dft"
    /\ ctl' = IF ctl.k < ctl.n THEN [ctl EXCEPT !.pc = "dft_inner", !.j = 0]
              ELSE Return(ctl)
    /\ UNCHANGED controlRest

\* fft.c:129-134
DftInner ==
    /\ ctl.pc = "dft_inner"
    /\ ctl' = IF ctl.j < ctl.n THEN [ctl EXCEPT !.j = SizeT(ctl.j + 1, size_bits)]
              ELSE [ctl EXCEPT !.pc = "dft", !.k = SizeT(ctl.k + 1, size_bits)]
    /\ UNCHANGED controlRest

\* fft.c:93
IfftEnter ==
    /\ ctl.pc = "ifft"
    /\ ctl' = IF ~is_power_of_2(ctl.n) THEN [ctl EXCEPT !.pc = "idft", !.i = 0]
              ELSE [ctl EXCEPT !.pc = "ifft_malloc"]
    /\ UNCHANGED controlRest

\* fft.c:95-96, 101
IdftOuter ==
    /\ ctl.pc = "idft"
    /\ ctl' = IF ctl.i < ctl.n THEN [ctl EXCEPT !.pc = "idft_inner", !.k = 0]
              ELSE Return(ctl)
    /\ UNCHANGED controlRest

\* fft.c:97-99
IdftInner ==
    /\ ctl.pc = "idft_inner"
    /\ ctl' = IF ctl.k < ctl.n THEN [ctl EXCEPT !.k = SizeT(ctl.k + 1, size_bits)]
              ELSE [ctl EXCEPT !.pc = "idft", !.i = SizeT(ctl.i + 1, size_bits)]
    /\ UNCHANGED controlRest

\* fft.c:105-107: temp is not tested; n >= 1 here, so a null temp is stored
\* through in the first round of the loop
IfftMalloc ==
    /\ ctl.pc = "ifft_malloc"
    /\ \E ok \in BOOLEAN :
         ctl' = IF ok THEN [ctl EXCEPT !.pc = "ifft_scale", !.i = 0]
                ELSE [ctl EXCEPT !.pc = "undefined", !.fault = "null"]
    /\ UNCHANGED controlRest

\* fft.c:106-111
IfftScale ==
    /\ ctl.pc = "ifft_scale"
    /\ ctl' = IF ctl.i < ctl.n THEN [ctl EXCEPT !.i = SizeT(ctl.i + 1, size_bits)]
              ELSE [Call(ctl, "fft", "ifft_conj") EXCEPT !.i = 0]
    /\ UNCHANGED controlRest

\* fft.c:114-119
IfftConj ==
    /\ ctl.pc = "ifft_conj"
    /\ ctl' = IF ctl.i < ctl.n THEN [ctl EXCEPT !.i = SizeT(ctl.i + 1, size_bits)]
              ELSE Return(ctl)
    /\ UNCHANGED controlRest

\* fourier.c:19-30
AnalyzeEnter ==
    /\ ctl.pc = "fourier_analyze"
    /\ ctl' = IF ctl.n = 0 \/ ctl.count = 0 THEN Return(ctl)
              ELSE [ctl EXCEPT !.pc = "malloc_fft_output",
                               !.count = ClampCount(ctl.count, ctl.n)]
    /\ UNCHANGED controlRest

\* fourier.c:33-38
AnalyzeFft ==
    /\ ctl.pc = "malloc_fft_output"
    /\ \E ok \in BOOLEAN :
         ctl' = IF ok THEN Call(ctl, "fft", "malloc_all_coeffs") ELSE Return(ctl)
    /\ UNCHANGED controlRest

\* fourier.c:41-45
AnalyzeAllCoeffs ==
    /\ ctl.pc = "malloc_all_coeffs"
    /\ \E ok \in BOOLEAN :
         ctl' = IF ok THEN [ctl EXCEPT !.pc = "extract", !.i = 0] ELSE Return(ctl)
    /\ UNCHANGED controlRest

\* fourier.c:47-63: qsort returns
AnalyzeExtract ==
    /\ ctl.pc = "extract"
    /\ ctl' = IF ctl.i < ctl.n THEN [ctl EXCEPT !.i = SizeT(ctl.i + 1, size_bits)]
              ELSE [ctl EXCEPT !.pc = "malloc_coefficients"]
    /\ UNCHANGED controlRest

\* fourier.c:66-80
AnalyzeKeep ==
    /\ ctl.pc = "malloc_coefficients"
    /\ \E ok \in BOOLEAN : ctl' = Return(ctl)
    /\ UNCHANGED controlRest

\* fourier.c:97-109
EpicyclesEnter ==
    /\ ctl.pc = "epicycles_at_time"
    /\ ctl' = IF ~ctl.has_result \/ ctl.count = 0 THEN Return(ctl)
              ELSE [ctl EXCEPT !.pc = "epicycle", !.i = 0]
    /\ UNCHANGED controlRest

\* fourier.c:112-128
EpicycleStep ==
    /\ ctl.pc = "epicycle"
    /\ ctl' = IF ctl.i < ctl.count THEN [ctl EXCEPT !.i = SizeT(ctl.i + 1, size_bits)]
              ELSE Return(ctl)
    /\ UNCHANGED controlRest

NextControl ==
    \/ FftEnter \/ BitsLoop \/ RevOuter \/ RevInner \/ StageTest \/ Shift
    \/ BlockTest \/ Butterfly \/ Normalize \/ DftOuter \/ DftInner
    \/ IfftEnter \/ IdftOuter \/ IdftInner \/ IfftMalloc \/ IfftScale \/ IfftConj
    \/ AnalyzeEnter \/ AnalyzeFft \/ AnalyzeAllCoeffs \/ AnalyzeExtract
    \/ AnalyzeKeep \/ EpicyclesEnter \/ EpicycleStep

SpecControl == InitControl /\ [][NextControl]_vars

\* a run that will not return: it has left defined execution, or its block
\* loop steps k by m = 0 below n
NeverReturns ==
    \/ ctl.pc = "undefined"
    \/ ctl.pc \in {"block", "butterfly"} /\ ctl.m = 0 /\ ctl.k < ctl.n

\* C19: every core operation terminates for every size and every requested
\* count: no run of fft, ifft, dft, fourier_analyze or epicycles_at_time
\* reaches a state from which it does not return, and in the block loop m is
\* 2^s, so that k, stepped by m, reaches n.
C19_Terminates ==
    /\ ~NeverReturns
    /\ ctl.pc \in {"block", "butterfly"} => ctl.m = 2^ctl.s

(***************************************************************************)
(* load_path_binary, statement by statement: SpecLoader.  A file is absent *)
(* or holds a header (absent when the file is shorter than four bytes) and *)
(* a number of whole doubles after it; double k of the file has the value  *)
(* FileDouble(k).                                                          *)
(***************************************************************************)
FileDouble(k) == k + 1

Files ==
    {IdleFile, [exists |-> TRUE, header |-> NULL, doubles |-> 0]} \cup
    {[exists |-> TRUE, header |-> Ptr(c), doubles |-> d] :
        c \in 0..MaxCount, d \in 0..(2 * MaxCount + 1)}

InitLoader ==
    /\ n_points \in {0}
    /\ points = <<>>
    /\ called = {}
    /\ IdleCaller
    /\ IdlePrograms
    /\ ctl = IdleControl
    /\ size_bits \in SizeWidths
    /\ file \in Files
    /\ load = [IdleLoad EXCEPT !.pc = "fopen"]

loaderRest == <<points, n_points, called, transformVars, analysisVars, epicycleVars,
                interleavedVars, size_bits, ctl, file, programVars>>

\* fclose(file); return NULL
Fail(l) == [l EXCEPT !.open = FALSE, !.ret = NULL, !.pc = "return"]

\* path_loader.c:9-13
Fopen ==
    /\ load.pc = "fopen"
    /\ load' = IF file.exists THEN [load EXCEPT !.open = TRUE, !.pc = "read_count"]
               ELSE [load EXCEPT !.ret = NULL, !.pc = "return"]
    /\ UNCHANGED loaderRest

\* path_loader.c:16-21
ReadCount ==
    /\ load.pc = "read_count"
    /\ load' = IF file.header = NULL THEN Fail(load)
               ELSE [load EXCEPT !.count = file.header.at, !.pc = "test_count"]
    /\ UNCHANGED loaderRest

\* path_loader.c:23-27
TestCount ==
    /\ load.pc = "test_count"
    /\ load' = IF load.count = 0 THEN Fail(load) ELSE [load EXCEPT !.pc = "malloc"]
    /\ UNCHANGED loaderRest

\* path_loader.c:30-35: the size is the size_t product count * sizeof(Complex)
MallocPoints ==
    /\ load.pc = "malloc"
    /\ \E ok \in BOOLEAN :
         LET bytes == SizeT(load.count * SizeofComplex, size_bits)
         IN  load' = IF ~ok THEN Fail(load)
                     ELSE [load EXCEPT !.bytes = bytes,
                                       !.points = Ptr(bytes),
                                       !.mem = Buffer(bytes \div SizeofComplex),
                                       !.i = 0,
                                       !.pc = "loop"]
    /\ UNCHANGED loaderRest

\* path_loader.c:38
LoopTest ==
    /\ load.pc = "loop"
    /\ load' = IF load.i < load.count THEN [load EXCEPT !.pc = "read_point"]
               ELSE [load EXCEPT !.pc = "finish"]
    /\ UNCHANGED loaderRest

\* path_loader.c:39-46
ReadPoint ==
    /\ load.pc = "read_point"
    /\ load' = IF load.pos + 2 > file.doubles
               THEN [Fail(load) EXCEPT !.freed = TRUE, !.pos = file.doubles]
               ELSE [load EXCEPT !.real = FileDouble(load.pos),
                                 !.imag = FileDouble(load.pos + 1),
                                 !.pos = load.pos + 2,
                                 !.pc = "store"]
    /\ UNCHANGED loaderRest

\* path_loader.c:47, and the step of the loop.  A store past the end of the
\* block is undefined: the run stops there, or goes on with the store made.
StorePoint ==
    /\ load.pc = "store"
    /\ \E stops \in BOOLEAN :
         /\ stops => load.i \notin DOMAIN load.mem
         /\ load' = IF stops THEN [load EXCEPT !.pc = "undefined"]
                    ELSE [load EXCEPT !.mem = Store(load.mem, load.i,
                                                    CInt(load.real, load.imag)),
                                      !.i = load.i + 1,
                                      !.pc = "loop"]
    /\ UNCHANGED loaderRest

\* path_loader.c:50-52
Finish ==
    /\ load.pc = "finish"
    /\ load' = [load EXCEPT !.open = FALSE, !.n_points = load.count,
                            !.ret = load.points, !.pc = "return"]
    /\ UNCHANGED loaderRest

NextLoader ==
    \/ Fopen \/ ReadCount \/ TestCount \/ MallocPoints
    \/ LoopTest \/ ReadPoint \/ StorePoint \/ Finish

SpecLoader == InitLoader /\ [][NextLoader]_vars

\* the file ends before count records of two doubles
Truncated == file.header # NULL /\ file.doubles < 2 * file.header.at

\* the records 0..(n - 1) of the file, as points
Records(n) == [i \in 0..(n - 1) |-> CInt(FileDouble(2 * i), FileDouble(2 * i + 1))]

\* C20: load_path_binary returns; when the header count is 0 or the file is
\* truncated (or there is no file or no header) it returns NULL; whenever
\* it returns NULL, *n_points is unwritten and the point buffer, if it was
\* allocated, is freed; when it returns points, they are exactly the count
\* records of the file, stored inside the block malloc gave.
C20_NoPartialLoad ==
    /\ load.pc # "undefined"
    /\ load.pc = "return" =>
          /\ (~file.exists \/ file.header = NULL \/ file.header.at = 0 \/ Truncated)
                => load.ret = NULL
          /\ load.ret = NULL =>
                /\ load.n_points = Uninit
                /\ load.points # NULL => load.freed
          /\ load.ret # NULL =>
                /\ load.n_points = file.header.at
                /\ ~load.freed
                /\ load.mem = Records(load.n_points)
                /\ load.n_points * SizeofComplex <= load.bytes

(***************************************************************************)
(* load_path_text, statement by statement: SpecText.  A text file is a     *)
(* sequence of lines, each a sequence of characters, the last one with or  *)
(* without its newline.                                                    *)
(***************************************************************************)
Newline == "\n"
Space == " "
Digits == {"1", "2"}
DigitValue(ch) == IF ch = "1" THEN 1 ELSE 2

\* a comment line longer than the line buffer, whose part past the buffer
\* reads as a point
LongComment == <<"#">> \o [k \in 1..(LineSize - 2) |-> "x"] \o <<"1", ",", "2">>

\* the lines a file is made of
TextLines ==
    {<<>>, <<"#">>, <<"#", "1", ",", "2">>, LongComment,
     <<"1", ",", "2">>, <<"2", ",", "1">>, <<"2", ",", "1", "x">>, <<"1", ",">>, <<"x">>}

RECURSIVE Seqs(_, _)
Seqs(S, n) ==
    IF n = 0 THEN {<<>>}
    ELSE Seqs(S, n - 1) \cup {Append(q, x) : q \in Seqs(S, n - 1), x \in S}

\* a last line may lack its newline when it is not empty
TextFiles ==
    {[exists |-> FALSE, lines |-> <<>>, terminated |-> TRUE]} \cup
    {f \in [exists : {TRUE}, lines : Seqs(TextLines, MaxLines), terminated : BOOLEAN] :
        f.terminated \/ (f.lines # <<>> /\ f.lines[Len(f.lines)] # <<>>)}

\* the characters of the file
RECURSIVE Chars(_, _)
Chars(lines, terminated) ==
    IF lines = <<>> THEN <<>>
    ELSE IF Len(lines) = 1
         THEN lines[1] \o (IF terminated THEN <<Newline>> ELSE <<>>)
    ELSE lines[1] \o <<Newline>> \o Chars(Tail(lines), terminated)

\* fgets: the index of the last of at most room characters from pos on, the
\* first newline ending them
RECURSIVE ChunkEnd(_, _, _)
ChunkEnd(txt, pos, room) ==
    IF room = 0 \/ pos > Len(txt) THEN pos - 1
    ELSE IF txt[pos] = Newline THEN pos
    ELSE ChunkEnd(txt, pos + 1, room - 1)

\* fgets(line, sizeof(line), file): NULL at the end of the file
fgets(txt, pos) ==
    IF pos > Len(txt) THEN [line |-> NULL, pos |-> pos]
    ELSE LET last == ChunkEnd(txt, pos, LineSize - 1)
         IN  [line |-> Ptr(SubSeq(txt, pos, last)), pos |-> last + 1]

RECURSIVE SkipSpace(_, _)
SkipSpace(str, i) ==
    IF i <= Len(str) /\ str[i] \in {Space, Newline} THEN SkipSpace(str, i + 1) ELSE i

RECURSIVE NumberEnd(_, _)
NumberEnd(str, i) ==
    IF i <= Len(str) /\ str[i] \in Digits THEN NumberEnd(str, i + 1) ELSE i

RECURSIVE Decimal(_)
Decimal(ds) ==
    IF ds = <<>> THEN 0
    ELSE 10 * Decimal(SubSeq(ds, 1, Len(ds) - 1)) + DigitValue(ds[Len(ds)])

\* sscanf(str, "%lf,%lf", &real, &imag): the number of conversions made (-1
\* when the string ends before the first), and the values stored.  %lf skips
\* white space and reads a number; the comma must follow the first number
\* at once; what follows the second number is not looked at.
sscanf(str) ==
    LET a == SkipSpace(str, 1)
        b == NumberEnd(str, a)
        c == SkipSpace(str, b + 1)
        d == NumberEnd(str, c)
    IN  IF a > Len(str) THEN [n |-> -1, real |-> Uninit, imag |-> Uninit]
        ELSE IF b = a THEN [n |-> 0, real |-> Uninit, imag |-> Uninit]
        ELSE IF b > Len(str) \/ str[b] # "," \/ d = c
             THEN [n |-> 1, real |-> Decimal(SubSeq(str, a, b - 1)), imag |-> Uninit]
        ELSE [n |-> 2, real |-> Decimal(SubSeq(str, a, b - 1)),
                       imag |-> Decimal(SubSeq(str, c, d - 1))]

\* line[0] == '\n' || line[0] == '#'
Skipped(line) == line[1] = Newline \/ line[1] = "#"

InitText ==
    /\ n_points \in {0}
    /\ points = <<>>
    /\ called = {}
    /\ IdleCaller
    /\ ctl = IdleControl
    /\ file = IdleFile
    /\ load = IdleLoad
    /\ app = NULL
    /\ life = NULL
    /\ size_bits \in SizeWidths
    /\ text \in TextFiles
    /\ scan = [pc |-> "fopen", open |-> FALSE, pos |-> 1, count |-> 0, bytes |-> 0,
               points |-> NULL, mem |-> <<>>, i |-> 0, line |-> <<>>,
               real |-> Uninit, imag |-> Uninit, ret |-> NULL, n_points |-> Uninit]

textRest == <<points, n_points, called, transformVars, analysisVars, epicycleVars,
              interleavedVars, size_bits, ctl, file, load, text, app, life>>

\* path_loader.c:57-64
TextOpen ==
    /\ scan.pc = "fopen"
    /\ scan' = IF text.exists THEN [scan EXCEPT !.open = TRUE, !.pc = "count"]
               ELSE [scan EXCEPT !.ret = NULL, !.pc = "return"]
    /\ UNCHANGED textRest

\* path_loader.c:66-70
CountLine ==
    /\ scan.pc = "count"
    /\ LET got == fgets(Chars(text.lines, text.terminated), scan.pos)
       IN  scan' = IF got.line = NULL THEN [scan EXCEPT !.pc = "test_count"]
                   ELSE [scan EXCEPT !.pos = got.pos,
                                     !.count = IF Skipped(got.line.at) THEN scan.count
                                               ELSE SizeT(scan.count + 1, size_bits)]
    /\ UNCHANGED textRest

\* path_loader.c:72-76
TextTestCount ==
    /\ scan.pc = "test_count"
    /\ scan' = IF scan.count = 0 THEN Fail(scan) ELSE [scan EXCEPT !.pc = "malloc"]
    /\ UNCHANGED textRest

\* path_loader.c:79-88
TextMalloc ==
    /\ scan.pc = "malloc"
    /\ \E ok \in BOOLEAN :
         LET bytes == SizeT(scan.count * SizeofComplex, size_bits)
         IN  scan' = IF ~ok THEN Fail(scan)
                     ELSE [scan EXCEPT !.bytes = bytes,
                                       !.points = Ptr(bytes),
                                       !.mem = Buffer(bytes \div SizeofComplex),
                                       !.pos = 1,
                                       !.i = 0,
                                       !.pc = "read"]
    /\ UNCHANGED textRest

\* path_loader.c:89-92
ReadLine ==
    /\ scan.pc = "read"
    /\ LET got == fgets(Chars(text.lines, text.terminated), scan.pos)
       IN  scan' = IF got.line = NULL THEN [scan EXCEPT !.pc = "finish"]
                   ELSE IF ~(scan.i < scan.count)
                        THEN [scan EXCEPT !.pos = got.pos, !.pc = "finish"]
                   ELSE IF Skipped(got.line.at) THEN [scan EXCEPT !.pos = got.pos]
                   ELSE [scan EXCEPT !.pos = got.pos, !.line = got.line.at,
                                     !.pc = "parse"]
    /\ UNCHANGED textRest

\* path_loader.c:94-98
ParseLine ==
    /\ scan.pc = "parse"
    /\ LET got == sscanf(scan.line)
       IN  scan' = IF got.n # 2 THEN [scan EXCEPT !.pc = "read"]
                   ELSE [scan EXCEPT !.real = got.real, !.imag = got.imag,
                                     !.pc = "store"]
    /\ UNCHANGED textRest

\* path_loader.c:100-101.  A store past the end of the block is undefined:
\* the run stops there, or goes on with the store made.
TextStore ==
    /\ scan.pc = "store"
    /\ \E stops \in BOOLEAN :
         /\ stops => scan.i \notin DOMAIN scan.mem
         /\ scan' = IF stops THEN [scan EXCEPT !.pc = "undefined"]
                    ELSE [scan EXCEPT !.mem = Store(scan.mem, scan.i,
                                                    CInt(scan.real, scan.imag)),
                                      !.i = SizeT(scan.i + 1, size_bits),
                                      !.pc = "read"]
    /\ UNCHANGED textRest

\* path_loader.c:104-106
TextFinish ==
    /\ scan.pc = "finish"
    /\ scan' = [scan EXCEPT !.open = FALSE, !.n_points = scan.i,
                            !.ret = scan.points, !.pc = "return"]
    /\ UNCHANGED textRest

NextText ==
    \/ TextOpen \/ CountLine \/ TextTestCount \/ TextMalloc
    \/ ReadLine \/ ParseLine \/ TextStore \/ TextFinish

SpecText == InitText /\ [][NextText]_vars

\* the lines of the file that are not blank, do not start with '#' and
\* parse as "real,imaginary"
PointLines ==
    SelectSeq(text.lines,
              LAMBDA l : l # <<>> /\ l[1] # "#" /\ sscanf(l \o <<Newline>>).n = 2)

\* C21: load_path_text returns NULL whenever it parsed no point: for a file
\* that is absent, empty, or made of blank lines and comments, and for a
\* file whose other lines all fail to parse.
C21_NoPointsIsFailure ==
    scan.pc = "return" /\ scan.i = 0 => scan.ret = NULL

\* C22: what load_path_text returns is the points of the lines that are not
\* blank, do not start with '#' and parse, in file order; *n_points is
\* their number, which is at most the count of the first pass, and every
\* point is stored inside the block allocated for that count.
C22_ExactlyParsedLines ==
    /\ scan.pc # "undefined"
    /\ scan.pc = "return" /\ scan.ret # NULL =>
          /\ scan.n_points = Len(PointLines)
          /\ scan.n_points <= scan.count
          /\ scan.n_points * SizeofComplex <= scan.bytes
          /\ \A k \in 1..Len(PointLines) :
                LET got == sscanf(PointLines[k] \o <<Newline>>)
                IN  /\ (k - 1) \in DOMAIN scan.mem
                    /\ scan.mem[k - 1] = CInt(got.real, got.imag)

(***************************************************************************)
(* Properties of the fast path, statement by statement, under SpecControl. *)
(***************************************************************************)
\* the run is on the fast path of fft, past bit_reverse_copy
Reordered ==
    /\ ctl.pc \in {"stage", "shift", "block", "butterfly", "normalize"}
    /\ is_power_of_2(ctl.n)

\* C24: on the fast path the stages have the block sizes m = 2, 4, ..., n:
\* stage s runs with m = 2^s for s = 1..log2(n) and no other stage runs;
\* no butterfly reads or writes an index outside [0, n); and when a stage
\* ends, each index of [0, n) was read and written by exactly one butterfly.
C24_StagesCoverEachIndexOnce ==
    /\ ctl.fault \notin {"shift", "index"}
    /\ ctl.pc \in {"block", "butterfly"} =>
          /\ ctl.m = 2^ctl.s
          /\ ctl.s \in 1..ShiftCount(ctl.n)
          /\ ctl.stages = ctl.s
    /\ (ctl.pc = "stage" /\ ctl.s > 1) =>
          \A x \in 0..(ctl.n - 1) : ctl.touched[x] = 1
    /\ ctl.pc = "normalize" => ctl.stages = ShiftCount(ctl.n)

\* C25: when bit_reverse_copy has run for a power-of-two n, every slot of
\* output was stored exactly once; slot r holds input[rev(r)], where the map
\* from a slot to its input index is a bijection on [0, n) and its own
\* inverse (the slot of input index i holds i again); for n = 1 slot 0 holds
\* input[0].
C25_BitReversalPermutes ==
    Reordered =>
        /\ DOMAIN ctl.slots = 0..(ctl.n - 1)
        /\ \A r \in 0..(ctl.n - 1) :
              /\ ctl.writes[r] = 1
              /\ ctl.slots[r] \in 0..(ctl.n - 1)
              /\ ctl.slots[r] = ReverseBits(0, r, ShiftCount(ctl.n))
              /\ ctl.slots[ctl.slots[r]] = r
        /\ {ctl.slots[r] : r \in 0..(ctl.n - 1)} = 0..(ctl.n - 1)

C25_Witness ==
    /\ Reordered
    /\ ctl.n >= 8
    /\ \E r \in 0..(ctl.n - 1) : ctl.slots[r] # r
    /\ \E r \in 1..(ctl.n - 2) : ctl.slots[r] = r

(***************************************************************************)
(* The frequency table the comment of fourier_analyze announces, under     *)
(* Spec.                                                                   *)
(***************************************************************************)
\* C26: for even n the spectrum indices 0..n-1 are assigned the frequencies
\* [0, 1, ..., n/2-1, -(n/2), -(n/2-1), ..., -1], as the comment at
\* fourier.c:51-54 says: when every coefficient is kept the frequencies of
\* the result are those, and the coefficient of index n/2 carries -(n/2).
C26_CommentedFrequencies ==
    (Succeeded /\ requested >= n_points /\ n_points % 2 = 0) =>
        LET half == n_points \div 2
            spectrum == fft(points, n_points, Buffer(n_points))
        IN  /\ {Coeffs[j].frequency : j \in 0..(result.count - 1)}
                   = (0..(half - 1)) \cup ((-half)..(-1))
            /\ \E j \in 0..(result.count - 1) :
                   /\ Coeffs[j].frequency = -half
                   /\ Coeffs[j].amplitude = cabs(spectrum[half])
                   /\ Coeffs[j].phase = carg(spectrum[half])

(***************************************************************************)
(* Analysis followed by reconstruction on the sampling grid:               *)
(* SpecRoundTrip.  The caller analyses its points keeping every            *)
(* coefficient, then evaluates the result at the times 2*pi*j/n, in any    *)
(* order and as often as it likes.                                         *)
(***************************************************************************)
\* the time 2*pi*j/n, in ticks
GridTime(j, n) == j * (RootOrder \div n)

\* tip = epicycles_at_time(&result, 2*pi*j/n, positions)
SampleOnGrid ==
    /\ "fourier_analyze" \in called
    /\ n_points >= 1
    /\ \E j \in 0..(n_points - 1) :
         LET out == epicycles_at_time(Ptr(result), GridTime(j, n_points),
                                      Ptr(<<>>))
         IN  /\ epi_result' = Ptr(result)
             /\ t' = GridTime(j, n_points)
             /\ positions' = out.positions
             /\ tip' = out.tip
    /\ called' = called \cup {"epicycles_at_time"}
    /\ UNCHANGED <<points, n_points, transformVars, analysisVars, remembered,
                   interleavedVars, machineVars>>

NextRoundTrip == AnalyzeAll \/ SampleOnGrid

SpecRoundTrip == Init /\ [][NextRoundTrip]_vars

\* C27: for a point sequence of length n >= 1 analysed with
\* requested_count = n, epicycles_at_time at t = 2*pi*j/n returns points[j],
\* for every j in [0, n) and whichever order the sort left the coefficients in.
C27_GridRoundTrip ==
    (Sampled /\ n_points >= 1) =>
        \E j \in 0..(n_points - 1) :
            /\ t = GridTime(j, n_points)
            /\ tip = points[j]
            /\ positions.at[result.count] = points[j]

C27_Witness ==
    /\ Sampled
    /\ n_points = 4
    /\ t = GridTime(3, 4)
    /\ points[0] = CZero
    /\ tip = CInt(1, 1)
    /\ Coeffs[0].amplitude = Coeffs[3].amplitude
    /\ Coeffs[0].frequency = 2

(***************************************************************************)
(* One FourierResult variable over its life: SpecLifecycle.  The caller    *)
(* assigns it from fourier_analyze, frees it, and evaluates it, in any     *)
(* order and any number of times; it also calls fourier_result_free(NULL). *)
(* life.frees[b] counts the calls of free on coefficient block b, and      *)
(* life.block is the block the variable points to (0: none).               *)
(***************************************************************************)
MaxCalls == 3

\* what fourier_analyze(pts, n, n_coeffs) can return, over the requests
\* n_coeffs and the allocation that fails, if one does
AnalysisOutcomes(pts, n) ==
    UNION {fourier_analyze(pts, n, n_coeffs, fail) :
              n_coeffs \in 0..MaxCoeffs, fail \in 0..3}

InitLifecycle ==
    /\ n_points \in AnalysisSizes
    /\ points \in Sparse(n_points, 1)
    /\ \A i \in 0..(n_points - 1) : points[i] \in {CZero, CInt(1, 1)}
    /\ Analysable(points, n_points)
    /\ IdleCaller
    /\ size_bits = WideBits
    /\ ctl = IdleControl
    /\ file = IdleFile
    /\ load = IdleLoad
    /\ text = NULL /\ scan = NULL /\ app = NULL
    /\ life = [outcomes |-> AnalysisOutcomes(points, n_points),
               var |-> Uninit, block |-> 0, frees |-> <<>>, calls |-> 0,
               last |-> [op |-> "none", was_empty |-> FALSE, kept |-> FALSE,
                         tip |-> CZero, origin |-> CZero]]

lifeRest == <<points, n_points, called, transformVars, analysisVars, epicycleVars,
              interleavedVars, size_bits, ctl, file, load, text, scan, app>>

\* the test of fourier.c:85: whether fourier_result_free(r) calls free
CallsFree(r) == r # NULL /\ r.at.coefficients # NULL

\* var = fourier_analyze(points, n_points, n_coeffs): what the variable held
\* is overwritten, freed or not.  life.outcomes holds AnalysisOutcomes of the
\* caller's points.
AssignAnalysis ==
    /\ life.calls < MaxCalls
    /\ \E r \in life.outcomes :
            life' = [outcomes |-> life.outcomes,
                     var |-> r,
                     block |-> IF r.coefficients = NULL THEN 0
                               ELSE Len(life.frees) + 1,
                     frees |-> IF r.coefficients = NULL THEN life.frees
                               ELSE Append(life.frees, 0),
                     calls |-> life.calls + 1,
                     last |-> [op |-> "analyze", was_empty |-> FALSE,
                               kept |-> FALSE, tip |-> CZero, origin |-> CZero]]
    /\ UNCHANGED lifeRest

\* fourier_result_free(NULL) or fourier_result_free(&var)
FreeResult ==
    /\ life.calls < MaxCalls
    /\ \E r \in {NULL} \cup (IF life.var = Uninit THEN {} ELSE {Ptr(life.var)}) :
         LET after == IF r = NULL THEN life.var ELSE fourier_result_free(r)
         IN  life' = [outcomes |-> life.outcomes,
                      var |-> after,
                      block |-> IF after = Uninit \/ after.coefficients = NULL
                                THEN 0 ELSE life.block,
                      frees |-> IF CallsFree(r)
                                THEN [life.frees EXCEPT ![life.block] = @ + 1]
                                ELSE life.frees,
                      calls |-> life.calls + 1,
                      last |-> [op |-> "free",
                                was_empty |-> (r = NULL \/ r.at.coefficients = NULL),
                                kept |-> (after = life.var /\ ~CallsFree(r)),
                                tip |-> CZero, origin |-> CZero]]
    /\ UNCHANGED lifeRest

\* epicycles_at_time(&var, time, positions); reading the coefficients of a
\* block that was freed is undefined
EvaluateResult ==
    /\ life.calls < MaxCalls
    /\ life.var # Uninit
    /\ \E time \in Times :
         LET dangling == /\ life.var.coefficients # NULL
                         /\ life.var.count # 0
                         /\ life.frees[life.block] > 0
             out == epicycles_at_time(Ptr(life.var), time, Ptr(<<>>))
         IN  life' = [life EXCEPT
                        !.calls = @ + 1,
                        !.last = IF dangling
                                 THEN [op |-> "undefined", was_empty |-> FALSE,
                                       kept |-> FALSE, tip |-> CZero,
                                       origin |-> CZero]
                                 ELSE [op |-> "sample",
                                       was_empty |-> (life.var.coefficients = NULL),
                                       kept |-> FALSE, tip |-> out.tip,
                                       origin |-> out.positions.at[0]]]
    /\ UNCHANGED lifeRest

NextLifecycle == AssignAnalysis \/ FreeResult \/ EvaluateResult

SpecLifecycle == InitLifecycle /\ [][NextLifecycle]_vars

\* C28: after any sequence of fourier_analyze and fourier_result_free calls on
\* a FourierResult variable, coefficients is NULL exactly when count is 0; so
\* fourier_result_free on a freed, empty, failed or NULL result changes nothing
\* and calls free on nothing (no block is freed twice), and epicycles_at_time
\* on a freed result returns the origin.
C28_NullExactlyWhenEmpty ==
    /\ life.var # Uninit =>
          (life.var.coefficients = NULL <=> life.var.count = 0)
    /\ \A b \in DOMAIN life.frees : life.frees[b] <= 1
    /\ (life.last.op = "free" /\ life.last.was_empty) => life.last.kept
    /\ (life.last.op = "sample" /\ life.last.was_empty) =>
          life.last.tip = CZero /\ life.last.origin = CZero
    /\ life.last.op # "undefined"

C28_Witness ==
    /\ life.last.op = "sample"
    /\ life.last.was_empty
    /\ life.var = EmptyResult
    /\ life.calls = 3
    /\ life.frees = <<1>>

(***************************************************************************)
(* simple_example's event loop: SpecApp.  app.drawings holds the point     *)
(* count of each loaded drawing; the first is the generated square.  A     *)
(* frame handles the keys that are pressed, in the order of the code, then *)
(* evaluates the result and draws: app.key is the place of the last        *)
(* handler run in the frame.  The coefficient arrays are too large to      *)
(* carry (hundreds of points), so the result is kept as its count and the  *)
(* block its coefficients pointer names; app.allocated holds the live      *)
(* coefficient blocks.  app.sample records the last call of                *)
(* epicycles_at_time: the count of the result passed, the capacity of the  *)
(* positions buffer passed, and whether the result's block was live.       *)
(* The byte counts here are far below the range of size_t.                 *)
(***************************************************************************)
\* main.c:36
DEFAULT_EPICYCLES == 150
\* main.c:343, 365: the step of the RIGHT and LEFT keys
KeyStep == 10
\* main.c:107: the point count of the generated square
SquarePoints == 400
\* main.c:92-94: the paths loaded from files
LoadablePaths == 3
\* the largest point count of a drawing loaded from a file
MaxFilePoints == 45

\* the point counts a loaded file can have (load_drawings keeps a drawing
\* only when n_points > 0, main.c:115)
FilePoints == {1, 3, MaxFilePoints}

\* the drawings load_drawings can return: the square, then the files that
\* loaded, in order
Drawings ==
    {<<SquarePoints>> \o files :
        files \in UNION {[1..k -> FilePoints] : k \in 0..LoadablePaths}}

CoefficientBlocks == {1, 2}

\* the count of the result fourier_analyze returns for n points, n_coeffs
\* requested, and the allocation that fails (0: none); fourier.c:18-81
AnalyzedCount(n, n_coeffs, fail) ==
    IF n = 0 \/ n_coeffs = 0 \/ fail # 0 THEN 0 ELSE ClampCount(n_coeffs, n)

\* half the point count with the halving left out
MaxAllowed_Whole(n) == n

\* main.c:193, 270: n_points / 2
MaxAllowed(n) == n \div 2

\* main.c:272-275
Limit(n_epicycles, max_allowed) ==
    IF n_epicycles > max_allowed THEN max_allowed ELSE n_epicycles

\* malloc((count + 1) * sizeof(Complex)): NULL, or a buffer of that capacity
MallocBuffer(count) == {NULL, Ptr([capacity |-> count + 1])}

InitApp ==
    /\ n_points = 0
    /\ points = <<>>
    /\ IdleCaller
    /\ size_bits = WideBits
    /\ ctl = IdleControl
    /\ file = IdleFile
    /\ load = IdleLoad
    /\ text = NULL /\ scan = NULL /\ life = NULL
    /\ \E d \in Drawings :
         app = [pc |-> "start", drawings |-> d, current_drawing |-> 0,
                n_epicycles |-> 0, fourier |-> EmptyResult, allocated |-> {},
                positions |-> NULL, key |-> 0, sample |-> NULL]

appRest == <<points, n_points, called, transformVars, analysisVars, epicycleVars,
             interleavedVars, size_bits, ctl, file, load, text, scan, life>>

\* main.c:190-245
Start ==
    /\ app.pc = "start"
    /\ \E fail \in 0..3 :
         LET n == app.drawings[1]
             n_epicycles == Limit(DEFAULT_EPICYCLES, MaxAllowed(n))
             count == AnalyzedCount(n, n_epicycles, fail)
         IN  IF count = 0
             THEN app' = [app EXCEPT !.pc = "exit", !.n_epicycles = n_epicycles]
             ELSE \E q \in MallocBuffer(count) :
                    app' = [app EXCEPT
                              !.pc = "loop",
                              !.n_epicycles = n_epicycles,
                              !.fourier = [coefficients |-> Ptr(1), count |-> count],
                              !.allocated = {1},
                              !.positions = q]
    /\ UNCHANGED appRest

\* The re-analysis every handler ends with (main.c:278-286, 302-310,
\* 328-336, 348-356, 362-370): the state after
\*   fourier_result_free(&fourier);
\*   fourier = fourier_analyze(points, n_points, n_coeffs);
\*   n_epicycles = fourier.count;
\*   free(epicycle_positions);
\*   epicycle_positions = malloc((fourier.count + 1) * sizeof(Complex));
Reanalyze(a, n_coeffs, fail, place) ==
    LET released == IF CallsFree(Ptr(a.fourier))
                    THEN a.allocated \ {a.fourier.coefficients.at}
                    ELSE a.allocated
        count == AnalyzedCount(a.drawings[a.current_drawing + 1], n_coeffs, fail)
        block == CHOOSE b \in CoefficientBlocks \ released :
                     \A c \in CoefficientBlocks \ released : b <= c
    IN  {[a EXCEPT
            !.fourier = IF count = 0 THEN EmptyResult
                        ELSE [coefficients |-> Ptr(block), count |-> count],
            !.allocated = IF count = 0 THEN released ELSE released \cup {block},
            !.n_epicycles = count,
            !.positions = q,
            !.key = place] : q \in MallocBuffer(count)}

\* the handlers of a frame, in the order the loop tests their keys
TabKey == 1
PKey == 2
DigitKey(i) == 3 + i
RightKey == 12
LeftKey == 13

\* main.c:267-270, 292-295, 318-321: the drawing is switched
Switch(a, to) == [a EXCEPT !.current_drawing = to]

\* main.c:266-289: TAB or N
NextDrawing ==
    /\ app.pc = "loop"
    /\ app.key < TabKey
    /\ \E fail \in 0..3 :
         LET a == Switch(app, (app.current_drawing + 1) % Len(app.drawings))
             max_allowed == MaxAllowed(a.drawings[a.current_drawing + 1])
         IN  app' \in Reanalyze(a, Limit(app.n_epicycles, max_allowed), fail, TabKey)
    /\ UNCHANGED appRest

\* main.c:291-313: P
PreviousDrawing ==
    /\ app.pc = "loop"
    /\ app.key < PKey
    /\ \E fail \in 0..3 :
         LET a == Switch(app, (app.current_drawing - 1 + Len(app.drawings))
                                  % Len(app.drawings))
             max_allowed == MaxAllowed(a.drawings[a.current_drawing + 1])
         IN  app' \in Reanalyze(a, Limit(app.n_epicycles, max_allowed), fail, PKey)
    /\ UNCHANGED appRest

\* main.c:316-340: the keys 1 to 9
SelectDrawing ==
    /\ app.pc = "loop"
    /\ \E i \in 0..8, fail \in 0..3 :
         /\ i < Len(app.drawings)
         /\ app.key < DigitKey(i)
         /\ LET a == Switch(app, i)
                max_allowed == MaxAllowed(a.drawings[a.current_drawing + 1])
            IN  app' \in Reanalyze(a, Limit(app.n_epicycles, max_allowed), fail,
                                   DigitKey(i))
    /\ UNCHANGED appRest

\* main.c:342-359: RIGHT
MoreEpicycles ==
    /\ app.pc = "loop"
    /\ app.key < RightKey
    /\ \E fail \in 0..3 :
         LET new_epicycles == app.n_epicycles + KeyStep
             max_allowed == MaxAllowed(app.drawings[app.current_drawing + 1])
         IN  IF new_epicycles <= max_allowed /\ new_epicycles # app.n_epicycles
             THEN app' \in Reanalyze(app, new_epicycles, fail, RightKey)
             ELSE app' = [app EXCEPT !.key = RightKey]
    /\ UNCHANGED appRest

\* main.c:361-372: LEFT
FewerEpicycles ==
    /\ app.pc = "loop"
    /\ app.key < LeftKey
    /\ \E fail \in 0..3 :
         IF app.n_epicycles > 1
         THEN app' \in Reanalyze(app,
                                 IF app.n_epicycles > KeyStep
                                 THEN app.n_epicycles - KeyStep ELSE 1,
                                 fail, LeftKey)
         ELSE app' = [app EXCEPT !.key = LeftKey]
    /\ UNCHANGED appRest

\* main.c:481-512, 606-615: the rest of the frame.  epicycles_at_time is
\* called with &fourier and epicycle_positions (it stores nothing through a
\* null positions); the draw loop then reads epicycle_positions[0..count],
\* which is undefined when the buffer is null and count > 0.
Frame ==
    /\ app.pc = "loop"
    /\ app' = [app EXCEPT
                 !.key = 0,
                 !.sample = Ptr([count |-> app.fourier.count,
                                 capacity |-> IF app.positions = NULL THEN 0
                                              ELSE app.positions.at.capacity,
                                 live |-> (app.fourier.coefficients = NULL
                                           \/ app.fourier.coefficients.at
                                                \in app.allocated)]),
                 !.pc = IF app.positions = NULL /\ app.fourier.count > 0
                        THEN "undefined" ELSE "loop"]
    /\ UNCHANGED appRest

\* main.c:248, 719-724: the window is closed
Close ==
    /\ app.pc = "loop"
    /\ app.key = 0
    /\ app' = [app EXCEPT
                 !.pc = "exit",
                 !.positions = NULL,
                 !.fourier = fourier_result_free(Ptr(app.fourier)),
                 !.allocated = IF CallsFree(Ptr(app.fourier))
                               THEN app.allocated \ {app.fourier.coefficients.at}
                               ELSE app.allocated]
    /\ UNCHANGED appRest

NextApp ==
    \/ Start
    \/ NextDrawing
    \/ PreviousDrawing
    \/ SelectDrawing
    \/ MoreEpicycles
    \/ FewerEpicycles
    \/ Frame
    \/ Close

SpecApp == InitApp /\ [][NextApp]_vars

\* C29: at every call of epicycles_at_time in the event loop, whatever keys
\* were pressed and however the analyses came out, the positions buffer has
\* capacity fourier.count + 1 for the result held in fourier, and that result
\* has not been freed.
C29_BufferFitsHeldResult ==
    app.sample # NULL =>
        /\ app.sample.at.capacity = app.sample.at.count + 1
        /\ app.sample.at.live

\* C30: in every state of the event loop, n_epicycles is at most half the
\* point count of the current drawing, and equals fourier.count.
C30_EpicyclesWithinHalf ==
    app.pc = "loop" =>
        /\ app.n_epicycles <= app.drawings[app.current_drawing + 1] \div 2
        /\ app.n_epicycles = app.fourier.count

C30_Witness ==
    /\ app.pc = "loop"
    /\ app.sample # NULL
    /\ app.current_drawing = 2
    /\ app.drawings[3] = MaxFilePoints
    /\ app.n_epicycles = 1 + KeyStep
    /\ app.fourier.coefficients # NULL
    /\ app.key = RightKey

====
